---- MODULE Spec2Model ----
(***************************************************************************)
(* Model of the Metal backend of plume: the command-list encoder state     *)
(* machine (MetalCommandList), the swap chain (MetalSwapChain), the        *)
(* command queue (MetalCommandQueue) and the descriptor sets.              *)
(*                                                                         *)
(* Pointers are modelled by names (strings); Null is the null pointer.     *)
(* A native encoder is modelled by the calls issued on it: every           *)
(* operation records in cl.calls the native calls it issued, in order.     *)
(***************************************************************************)
EXTENDS Integers, Sequences, FiniteSets, TLC

VARIABLES
    cl,       \* the MetalCommandList object (fields named as in the source)
    lastOp,   \* the last command-list operation called: [name, args]
    opCount,  \* number of command-list operations performed so far
    limit,    \* number of operations the run may perform
    sc,       \* the MetalSwapChain object and the presents in flight
    scOps,    \* number of swap-chain calls performed so far
    q,        \* the MetalCommandQueue, its semaphores, fences and command buffers
    dset,     \* a MetalDescriptorSet, its layout and the description it was built from
    dev,      \* the MetalDevice: its clear pipeline cache and the threads calling it
    conv      \* a format conversion: the format given and the results of the mappings

vars == <<cl, lastOp, opCount, limit, sc, scOps, q, dset, dev, conv>>

Null == "null"

\* ------------------------------------------------------------------------
\* Bounds of the model
\* ------------------------------------------------------------------------
MaxOps == 4
MaxEncOps == 5
MaxScOps == 6
MaxRenderOps == 6

\* ------------------------------------------------------------------------
\* Program constants
\* ------------------------------------------------------------------------
MAX_DESCRIPTOR_SET_BINDINGS == 8
MAX_PUSH_CONSTANT_BINDINGS == 4
MAX_VERTEX_BUFFER_BINDINGS == 19
MAX_CLEAR_RECTS == 16
MAX_DRAWABLES == 3
DESCRIPTOR_SETS_BINDING_INDEX == 0
PUSH_CONSTANTS_BINDING_INDEX == DESCRIPTOR_SETS_BINDING_INDEX + MAX_DESCRIPTOR_SET_BINDINGS
VERTEX_BUFFERS_BINDING_INDEX == PUSH_CONSTANTS_BINDING_INDEX + MAX_PUSH_CONSTANT_BINDINGS

EncoderType == {"None", "Render", "Compute", "Blit", "Resolve"}

Min(a, b) == IF a < b THEN a ELSE b
Max(a, b) == IF a > b THEN a ELSE b

\* alignUp(n, 16): (n + alignment - 1) & ~(alignment - 1)
alignUp(n) == ((n + 15) \div 16) * 16

\* ------------------------------------------------------------------------
\* The objects a recording refers to (inputs of the operations)
\* ------------------------------------------------------------------------

\* Framebuffers: number of colour attachments, depth format, dimensions.
Framebuffers == {"fbColor", "fbDepth"}
ColorAttachmentCount(fb) == 1
HasDepthAttachment(fb) == fb = "fbDepth"
RenderFormatIsStencil(fb) == fb = "fbDepth"
FramebufferWidth(fb) == 4
FramebufferHeight(fb) == 4

\* Graphics pipelines; &pipeline->state is identified with the pipeline.
GraphicsPipelines == {"gpDynamic", "gpStatic"}
ComputePipelines == {"cp"}
MetalRenderState(p) ==
    IF p = "gpDynamic"
    THEN [renderPipelineState |-> "rps_gpDynamic", primitiveType |-> "Triangle",
          dynamicDepthBiasEnabled |-> TRUE,
          depthBiasConstantFactor |-> 0, depthBiasClamp |-> 0, depthBiasSlopeFactor |-> 0]
    ELSE [renderPipelineState |-> "rps_gpStatic", primitiveType |-> "Line",
          dynamicDepthBiasEnabled |-> FALSE,
          depthBiasConstantFactor |-> 5, depthBiasClamp |-> 6, depthBiasSlopeFactor |-> 7]
PrimitiveTypes == {"Triangle", "Line"}

\* Pipeline layouts: setLayoutCount and pushConstantRanges.
PipelineLayouts == {"layoutA", "layoutB"}
SetLayoutCount(l) == IF l = "layoutA" THEN 2 ELSE 1
PushConstantRanges(l) ==
    IF l = "layoutA"
    THEN <<[binding |-> 0, set |-> 0, offset |-> 0, size |-> 2, stageFlags |-> {"VERTEX"}]>>
    ELSE <<[binding |-> 0, set |-> 0, offset |-> 0, size |-> 2, stageFlags |-> {"PIXEL", "COMPUTE"}],
           [binding |-> 1, set |-> 0, offset |-> 0, size |-> 1, stageFlags |-> {"VERTEX", "PIXEL"}]>>

\* Descriptor sets and their CPU-side resource table.
DescriptorSets == {"dsA", "dsB"}
ResourceEntries(ds) ==
    IF ds = "dsA"
    THEN <<[resource |-> "tex0", type |-> "TEXTURE"], [resource |-> Null, type |-> "UNKNOWN"]>>
    ELSE <<[resource |-> "buf0", type |-> "READ_WRITE_STRUCTURED_BUFFER"]>>

Buffers == {"vb0", "vb1"}
Colors == {"red", "blue"}
DepthValues == {"depth1"}
StencilValues == {"stencil0"}
VertexCounts == {3, 6}
Viewports == {"vpFull", "vpHalf"}
RenderRects == {[left |-> 0, top |-> 0, right |-> 4, bottom |-> 4],
                [left |-> 1, top |-> 1, right |-> 8, bottom |-> 8]}
DepthBiasValues == {[depthBias |-> 1, depthBiasClamp |-> 2, slopeScaledDepthBias |-> 3],
                    [depthBias |-> 4, depthBiasClamp |-> 4, slopeScaledDepthBias |-> 4]}

\* ------------------------------------------------------------------------
\* GraphicsStateFlags / ComputeStateFlags
\* ------------------------------------------------------------------------
VertexSlots == 0 .. (MAX_VERTEX_BUFFER_BINDINGS - 1)
SetSlots == 0 .. (MAX_DESCRIPTOR_SET_BINDINGS - 1)

GraphicsStateFlagsZero ==
    [pipelineState |-> FALSE, descriptorSets |-> FALSE, pushConstants |-> FALSE,
     viewports |-> FALSE, scissors |-> FALSE, indexBuffer |-> FALSE, depthBias |-> FALSE,
     descriptorSetDirtyIndex |-> 0, vertexBufferSlots |-> {}]

GraphicsSetAll ==
    [pipelineState |-> TRUE, descriptorSets |-> TRUE, pushConstants |-> TRUE,
     viewports |-> TRUE, scissors |-> TRUE, indexBuffer |-> TRUE, depthBias |-> TRUE,
     descriptorSetDirtyIndex |-> 0, vertexBufferSlots |-> VertexSlots]

ComputeStateFlagsZero ==
    [pipelineState |-> FALSE, descriptorSets |-> FALSE, pushConstants |-> FALSE,
     descriptorSetDirtyIndex |-> 0]

ComputeSetAll ==
    [pipelineState |-> TRUE, descriptorSets |-> TRUE, pushConstants |-> TRUE,
     descriptorSetDirtyIndex |-> 0]

\* ------------------------------------------------------------------------
\* The command list after construction
\* ------------------------------------------------------------------------
StateCacheEmpty ==
    [lastPipelineState |-> Null, lastViewports |-> <<>>, lastScissors |-> <<>>,
     lastPushConstants |-> <<>>]

NoAttachment == [loadAction |-> "None", clearValue |-> "None"]
NoRenderPass == [color |-> <<>>, depth |-> NoAttachment, stencil |-> NoAttachment]
NoDraw == [call |-> "none", count |-> 0, primitiveType |-> "none"]

\* dynamicDepthBias has no initialiser: until setDepthBias is called its value
\* is indeterminate, and a read of it yields an arbitrary value.
IndeterminateBias == [depthBias |-> -1, depthBiasClamp |-> -1, slopeScaledDepthBias |-> -1]

\* Per attachment slot of a framebuffer (its colour attachments, then depth,
\* then stencil), the value of the last full clear that awaits a render pass.
ClearSlots == 0 .. 2
NoFullClears == [i \in ClearSlots |-> "None"]

NewCommandList ==
    [mtl |-> Null,
     activeType |-> "None",
     activeRenderEncoder |-> Null,
     activeComputeEncoder |-> Null,
     activeBlitEncoder |-> Null,
     activeResolveComputeEncoder |-> Null,
     dirtyComputeState |-> ComputeStateFlagsZero,
     dirtyGraphicsState |-> GraphicsStateFlagsZero,
     pendingClears |-> [initialAction |-> <<>>, clearValues |-> <<>>, active |-> FALSE],
     stateCache |-> StateCacheEmpty,
     currentPrimitiveType |-> "Triangle",
     currentIndexType |-> "UInt32",
     indexBuffer |-> Null,
     indexBufferOffset |-> 0,
     indexTypeSize |-> 0,
     vertexBuffers |-> [i \in VertexSlots |-> Null],
     vertexBufferOffsets |-> [i \in VertexSlots |-> 0],
     viewportVector |-> <<>>,
     scissorVector |-> <<>>,
     pushConstants |-> <<>>,
     dynamicDepthBias |-> IndeterminateBias,
     targetFramebuffer |-> Null,
     activeComputePipelineLayout |-> Null,
     activeGraphicsPipelineLayout |-> Null,
     activeRenderState |-> Null,
     activeComputeState |-> Null,
     renderDescriptorSets |-> [i \in SetSlots |-> Null],
     computeDescriptorSets |-> [i \in SetSlots |-> Null],
     currentEncoderDescriptorSets |-> {},
     boundSets |-> {},        \* descriptor sets bound on the open render or compute encoder
     \* observation of the native API (not fields of the source object)
     calls |-> <<>>,          \* native calls issued by the last operation
     renderOpens |-> 0,       \* render encoders opened on command buffers so far
     renderCloses |-> 0,      \* render encoders ended so far
     encPipelineBinds |-> 0,  \* pipeline binds of draws on the open render encoder
     encOnlyDraws |-> FALSE,  \* the open render encoder has seen draw calls only
     drawCount |-> 0,         \* draw calls issued so far
     lastDraw |-> NoDraw,     \* the last draw call issued
     renderPass |-> NoRenderPass, \* descriptor of the last render encoder opened
     scenario |-> 0,          \* progress along the clear-then-draw recording
     fullClears |-> NoFullClears, \* full clears recorded that no render pass applied yet
     graphicsSince |-> [lowest |-> MAX_DESCRIPTOR_SET_BINDINGS, quiet |-> FALSE],
     computeSince |-> [lowest |-> MAX_DESCRIPTOR_SET_BINDINGS, quiet |-> FALSE],
                              \* per domain, since its last draw or dispatch: the lowest
                              \* set index whose pointer changed, and whether nothing but
                              \* descriptor-set calls were recorded
     renderClosedByCopy |-> FALSE, \* a copy closed the render encoder, and no
                              \* render command has been recorded since
     overlap |-> FALSE,       \* an encoder was opened while another one was open
     crashed |-> FALSE]       \* the process died on a null dereference

\* The native encoders open on the command buffer.
OpenEncoders(s) ==
    {k \in {"Render", "Compute", "Blit", "Resolve"} :
        \/ k = "Render" /\ s.activeRenderEncoder # Null
        \/ k = "Compute" /\ s.activeComputeEncoder # Null
        \/ k = "Blit" /\ s.activeBlitEncoder # Null
        \/ k = "Resolve" /\ s.activeResolveComputeEncoder # Null}

\* Opening a native encoder on the command buffer: notes whether another
\* encoder was still open at that moment.
NoteOpen(s) == [s EXCEPT !.overlap = @ \/ OpenEncoders(s) # {}]

Emit(s, name, a) == [s EXCEPT !.calls = Append(@, [call |-> name, arg |-> a])]

\* ------------------------------------------------------------------------
\* Closing encoders
\* ------------------------------------------------------------------------

\* bindEncoderResources: useResource for every live entry of every tracked set.
\* The tracked sets are an unordered_set; the calls of one close are recorded
\* as one entry holding, per set, the <<resource, type>> pairs declared.
LiveEntries(ds) ==
    SelectSeq(ResourceEntries(ds), LAMBDA e : e.resource # Null)

\* A usage mask that is Read for every range type.
mapResourceUsage_AlwaysRead(type) == {"Read"}

\* mapResourceUsage: the usage mask of a descriptor range type.
mapResourceUsage(type) ==
    IF type \in {"TEXTURE", "FORMATTED_BUFFER", "ACCELERATION_STRUCTURE", "STRUCTURED_BUFFER",
                 "BYTE_ADDRESS_BUFFER", "CONSTANT_BUFFER", "SAMPLER"}
    THEN {"Read"}
    ELSE IF type \in {"READ_WRITE_FORMATTED_BUFFER", "READ_WRITE_STRUCTURED_BUFFER",
                      "READ_WRITE_BYTE_ADDRESS_BUFFER", "READ_WRITE_TEXTURE"}
         THEN {"Read", "Write"}
         ELSE {}

\* One useResource call per live entry, in the order of the entries.
UseResourceCallsFor(live) ==
    [k \in DOMAIN live |->
        [resource |-> live[k].resource, usage |-> mapResourceUsage(live[k].type)]]

\* The useResource calls made for one descriptor set: one per entry that has
\* a resource.
UseResourceCalls(ds) == UseResourceCallsFor(LiveEntries(ds))

\* The useResource calls of all tracked sets are recorded as one
\* "useResources" entry, per descriptor set (the sets are visited in the
\* order of an unordered set).
DeclareUses(s, isCompute, uses) ==
    IF \E ds \in DOMAIN uses : uses[ds] # <<>>
    THEN Emit(s, "useResources", <<isCompute, uses>>)
    ELSE s

bindEncoderResources(s, isCompute) ==
    DeclareUses(s, isCompute, [ds \in s.currentEncoderDescriptorSets |-> UseResourceCalls(ds)])

\* Variant that ends the encoder and leaves the dirty flags as they are.
endActiveRenderEncoder_KeepsFlags(s) ==
    IF s.activeRenderEncoder # Null
    THEN LET s1 == Emit(bindEncoderResources(s, FALSE), "endEncoding", <<"Render">>)
         IN [s1 EXCEPT !.activeRenderEncoder = Null,
                       !.currentEncoderDescriptorSets = {},
                       !.stateCache = StateCacheEmpty,
                       !.renderCloses = @ + 1,
                       !.encPipelineBinds = 0,
                       !.encOnlyDraws = FALSE]
    ELSE s

endActiveRenderEncoder(s) ==
    IF s.activeRenderEncoder # Null
    THEN LET s1 == Emit(bindEncoderResources(s, FALSE), "endEncoding", <<"Render">>)
         IN [s1 EXCEPT !.activeRenderEncoder = Null,
                       !.currentEncoderDescriptorSets = {},
                       !.dirtyGraphicsState = GraphicsSetAll,
                       !.stateCache = StateCacheEmpty,
                       !.renderCloses = @ + 1,
                       !.encPipelineBinds = 0,
                       !.encOnlyDraws = FALSE]
    ELSE s

endActiveComputeEncoder(s) ==
    IF s.activeComputeEncoder # Null
    THEN LET s1 == Emit(bindEncoderResources(s, TRUE), "endEncoding", <<"Compute">>)
         IN [s1 EXCEPT !.activeComputeEncoder = Null,
                       !.currentEncoderDescriptorSets = {},
                       !.stateCache.lastPushConstants = <<>>]
    ELSE s

endActiveBlitEncoder(s) ==
    IF s.activeBlitEncoder # Null
    THEN [Emit(s, "endEncoding", <<"Blit">>) EXCEPT !.activeBlitEncoder = Null]
    ELSE s

endActiveResolveTextureComputeEncoder(s) ==
    IF s.activeResolveComputeEncoder # Null
    THEN [Emit(s, "endEncoding", <<"Resolve">>) EXCEPT !.activeResolveComputeEncoder = Null]
    ELSE s

\* Variant that leaves an open render encoder open when the kind changes.
endOtherEncoders_KeepsRender(s, type) ==
    IF s.activeType = type THEN s
    ELSE CASE s.activeType = "None" -> s
           [] s.activeType = "Render" -> s
           [] s.activeType = "Compute" -> endActiveComputeEncoder(s)
           [] s.activeType = "Blit" -> endActiveBlitEncoder(s)
           [] s.activeType = "Resolve" -> endActiveResolveTextureComputeEncoder(s)

endOtherEncoders(s, type) ==
    IF s.activeType = type THEN s
    ELSE CASE s.activeType = "None" -> s
           [] s.activeType = "Render" -> endActiveRenderEncoder(s)
           [] s.activeType = "Compute" -> endActiveComputeEncoder(s)
           [] s.activeType = "Blit" -> endActiveBlitEncoder(s)
           [] s.activeType = "Resolve" -> endActiveResolveTextureComputeEncoder(s)

\* ------------------------------------------------------------------------
\* Opening encoders
\* ------------------------------------------------------------------------

\* Variant whose render pass loads every attachment, whatever clear is pending.
RenderPassDescriptor_AlwaysLoad(s) ==
    LET fb == s.targetFramebuffer
        n == ColorAttachmentCount(fb)
        pc == s.pendingClears
    IN [color |-> [i \in 0 .. (n - 1) |->
                      [loadAction |-> "Load", clearValue |-> pc.clearValues[i]]],
        depth |-> IF HasDepthAttachment(fb)
                  THEN [loadAction |-> "Load", clearValue |-> pc.clearValues[n]]
                  ELSE NoAttachment,
        stencil |-> IF HasDepthAttachment(fb) /\ RenderFormatIsStencil(fb)
                    THEN [loadAction |-> "Load", clearValue |-> pc.clearValues[n + 1]]
                    ELSE NoAttachment]

\* The render pass descriptor built from the target framebuffer and the
\* pending clears: per attachment the load action and the clear value.
RenderPassDescriptor(s) ==
    LET fb == s.targetFramebuffer
        n == ColorAttachmentCount(fb)
        pc == s.pendingClears
    IN [color |-> [i \in 0 .. (n - 1) |->
                      [loadAction |-> pc.initialAction[i], clearValue |-> pc.clearValues[i]]],
        depth |-> IF HasDepthAttachment(fb)
                  THEN [loadAction |-> pc.initialAction[n], clearValue |-> pc.clearValues[n]]
                  ELSE NoAttachment,
        stencil |-> IF HasDepthAttachment(fb) /\ RenderFormatIsStencil(fb)
                    THEN [loadAction |-> pc.initialAction[n + 1],
                          clearValue |-> pc.clearValues[n + 1]]
                    ELSE NoAttachment]

\* The part of checkActiveRenderEncoder after the encoders of the other kinds
\* have ended: the open encoder ends if a clear is pending.
EndRenderIfClearsPending(s1) ==
    IF s1.pendingClears.active THEN endActiveRenderEncoder(s1) ELSE s1

\* Variant that leaves the pending clears recorded once the pass is open.
OpenRenderEncoder_KeepsClears(s3, desc) ==
    [Emit(NoteOpen(s3), "renderCommandEncoder", <<desc>>)
        EXCEPT !.activeRenderEncoder = "open",
               !.renderPass = desc,
               !.renderOpens = @ + 1,
               !.encPipelineBinds = 0,
               !.encOnlyDraws = FALSE]

\* A render encoder is opened on the render pass desc.
OpenRenderEncoder(s3, desc) ==
    LET s4 == [Emit(NoteOpen(s3), "renderCommandEncoder", <<desc>>)
                  EXCEPT !.activeRenderEncoder = "open",
                         !.renderPass = desc,
                         !.renderOpens = @ + 1,
                         !.encPipelineBinds = 0,
                         !.encOnlyDraws = FALSE]
    IN IF s4.pendingClears.active
       THEN [s4 EXCEPT !.pendingClears.initialAction = [i \in DOMAIN @ |-> "Load"],
                       !.pendingClears.active = FALSE]
       ELSE s4

\* The part of checkActiveRenderEncoder from activeType = Render on.
OpenRenderEncoderIfNone(s3) ==
    IF s3.activeRenderEncoder = Null
    THEN OpenRenderEncoder(s3, RenderPassDescriptor(s3))
    ELSE s3

SetActiveType(s, type) == [s EXCEPT !.activeType = type]

\* Variant that opens the render encoder without ending the encoders of the
\* other kinds first.
checkActiveRenderEncoder_KeepsOthers(s) ==
    OpenRenderEncoderIfNone(SetActiveType(EndRenderIfClearsPending(s), "Render"))

checkActiveRenderEncoder(s) ==
    OpenRenderEncoderIfNone(
        SetActiveType(EndRenderIfClearsPending(endOtherEncoders(s, "Render")), "Render"))

handlePendingClears(s) ==
    IF ~s.pendingClears.active THEN s
    ELSE endActiveRenderEncoder(checkActiveRenderEncoder(s))

checkActiveBlitEncoder(s) ==
    LET s1 == [endOtherEncoders(s, "Blit") EXCEPT !.activeType = "Blit"]
    IN IF s1.activeBlitEncoder = Null
       THEN [Emit(NoteOpen(s1), "blitCommandEncoder", <<>>) EXCEPT !.activeBlitEncoder = "open"]
       ELSE s1

checkActiveResolveTextureComputeEncoder(s) ==
    LET s1 == [endOtherEncoders(s, "Resolve") EXCEPT !.activeType = "Resolve"]
    IN IF s1.activeResolveComputeEncoder = Null
       THEN [Emit(Emit(NoteOpen(s1), "computeCommandEncoder", <<"Resolve">>),
                  "setComputePipelineState", <<"resolveTexturePipelineState">>)
                EXCEPT !.activeResolveComputeEncoder = "open"]
       ELSE s1

\* ------------------------------------------------------------------------
\* Reads through a null pointer.  activeRenderState, activeComputeState and
\* activeComputePipelineLayout are dereferenced without a null check; the
\* outcome of such a read is either the death of the process or an
\* arbitrary value.  ub chooses the outcome of the reads of one operation.
\* ------------------------------------------------------------------------
UBOutcomes == [crash : BOOLEAN, flag : BOOLEAN, prim : PrimitiveTypes, bias : DepthBiasValues]

Crash(s) == [s EXCEPT !.crashed = TRUE]

\* The outcomes to consider for an operation: what a read through a null
\* pointer does (the process dies, or the read yields some value), and the
\* value read from the depth bias that no setDepthBias has initialised.
\* Choices for reads the operation does not make are left out.
UBChoices(nullDeref, readsPrimitiveType, readsDepthBias) ==
    {ub \in UBOutcomes :
        /\ ub.crash => nullDeref
        /\ (ub.crash \/ ~nullDeref) => ~ub.flag
        /\ (ub.crash \/ ~readsPrimitiveType) => ub.prim = "Triangle"
        /\ (ub.crash \/ ~readsDepthBias) =>
              ub.bias = [depthBias |-> 1, depthBiasClamp |-> 2, slopeScaledDepthBias |-> 3]}

GraphicsUBChoices(s, readsPrimitiveType) ==
    UBChoices(s.activeRenderState = Null,
              readsPrimitiveType /\ s.activeRenderState = Null,
              /\ s.dynamicDepthBias = IndeterminateBias
              /\ \/ s.activeRenderState = Null
                 \/ MetalRenderState(s.activeRenderState).dynamicDepthBiasEnabled)

ComputeUBChoices(s) ==
    UBChoices(s.activeComputeState = Null \/ s.activeComputePipelineLayout = Null,
              FALSE, FALSE)

\* ------------------------------------------------------------------------
\* MetalPipelineLayout::bindDescriptorSets
\* ------------------------------------------------------------------------
RECURSIVE bindDescriptorSetsFrom(_, _, _, _, _)
bindDescriptorSetsFrom(s, descriptorSets, isCompute, i, setLayoutCount) ==
    IF i >= setLayoutCount THEN s
    ELSE IF i >= MAX_DESCRIPTOR_SET_BINDINGS \/ descriptorSets[i] = Null
         THEN bindDescriptorSetsFrom(s, descriptorSets, isCompute, i + 1, setLayoutCount)
         ELSE LET s1 == [s EXCEPT !.currentEncoderDescriptorSets = @ \cup {descriptorSets[i]}]
                  s2 == IF isCompute
                        THEN Emit(s1, "setBuffer",
                                  <<descriptorSets[i], DESCRIPTOR_SETS_BINDING_INDEX + i>>)
                        ELSE Emit(Emit(s1, "setFragmentBuffer",
                                       <<descriptorSets[i], DESCRIPTOR_SETS_BINDING_INDEX + i>>),
                                  "setVertexBuffer",
                                  <<descriptorSets[i], DESCRIPTOR_SETS_BINDING_INDEX + i>>)
              IN bindDescriptorSetsFrom(s2, descriptorSets, isCompute, i + 1, setLayoutCount)

bindDescriptorSets(s, setLayoutCount, descriptorSets, isCompute, startIndex) ==
    bindDescriptorSetsFrom(s, descriptorSets, isCompute, startIndex, setLayoutCount)

\* ------------------------------------------------------------------------
\* MetalCommandList::checkForUpdatesInGraphicsState, category by category
\* ------------------------------------------------------------------------
\* Variant that binds the pipeline and leaves its dirty bit set.
FlushPipelineState_StaysDirty(s) ==
    IF s.dirtyGraphicsState.pipelineState
    THEN IF s.activeRenderState # Null
         THEN [Emit(s, "setRenderPipelineState",
                    <<MetalRenderState(s.activeRenderState).renderPipelineState>>)
                  EXCEPT !.stateCache.lastPipelineState =
                             MetalRenderState(s.activeRenderState).renderPipelineState,
                         !.encPipelineBinds = @ + 1]
         ELSE s
    ELSE s

FlushPipelineState(s) ==
    IF s.dirtyGraphicsState.pipelineState
    THEN LET s1 == IF s.activeRenderState # Null
                   THEN [Emit(s, "setRenderPipelineState",
                              <<MetalRenderState(s.activeRenderState).renderPipelineState>>)
                            EXCEPT !.stateCache.lastPipelineState =
                                       MetalRenderState(s.activeRenderState).renderPipelineState,
                                   !.encPipelineBinds = @ + 1]
                   ELSE s
         IN [s1 EXCEPT !.dirtyGraphicsState.pipelineState = FALSE]
    ELSE s

FlushViewports(s) ==
    IF s.dirtyGraphicsState.viewports
    THEN [Emit(s, "setViewports", <<s.viewportVector>>)
             EXCEPT !.stateCache.lastViewports = s.viewportVector,
                    !.dirtyGraphicsState.viewports = FALSE]
    ELSE s

FlushDepthBias(s, ub) ==
    IF s.dirtyGraphicsState.depthBias
    THEN LET dynamic == IF s.activeRenderState = Null THEN ub.flag
                        ELSE MetalRenderState(s.activeRenderState).dynamicDepthBiasEnabled
             bias == IF s.dynamicDepthBias = IndeterminateBias THEN ub.bias
                     ELSE s.dynamicDepthBias
             s1 == IF dynamic
                   THEN Emit(s, "setDepthBias",
                             <<bias.depthBias, bias.slopeScaledDepthBias, bias.depthBiasClamp>>)
                   ELSE IF s.activeRenderState = Null
                        THEN Emit(s, "setDepthBias", <<"garbage">>)
                        ELSE LET rs == MetalRenderState(s.activeRenderState)
                             IN Emit(s, "setDepthBias",
                                     <<rs.depthBiasConstantFactor, rs.depthBiasSlopeFactor,
                                       rs.depthBiasClamp>>)
         IN [s1 EXCEPT !.dirtyGraphicsState.depthBias = FALSE]
    ELSE s

FlushScissors(s) ==
    IF s.dirtyGraphicsState.scissors
    THEN [Emit(s, "setScissorRects", <<s.scissorVector>>)
             EXCEPT !.stateCache.lastScissors = s.scissorVector,
                    !.dirtyGraphicsState.scissors = FALSE]
    ELSE s

\* The dirty slots, lowest set bit first (__builtin_ctzll).
RECURSIVE FlushVertexBufferSlots(_, _)
FlushVertexBufferSlots(s, vertexBufferSlots) ==
    IF vertexBufferSlots = {} THEN s
    ELSE LET i == CHOOSE x \in vertexBufferSlots : \A y \in vertexBufferSlots : x <= y
         IN FlushVertexBufferSlots(
                Emit(s, "setVertexBuffer",
                     <<s.vertexBuffers[i], s.vertexBufferOffsets[i],
                       VERTEX_BUFFERS_BINDING_INDEX + i>>),
                vertexBufferSlots \ {i})

FlushVertexBuffers(s) ==
    IF s.dirtyGraphicsState.vertexBufferSlots # {}
    THEN [FlushVertexBufferSlots(s, s.dirtyGraphicsState.vertexBufferSlots)
             EXCEPT !.dirtyGraphicsState.vertexBufferSlots = {}]
    ELSE s

FlushDescriptorSets(s) ==
    IF s.dirtyGraphicsState.descriptorSets
    THEN LET s1 == IF s.activeGraphicsPipelineLayout # Null
                   THEN bindDescriptorSets(s, SetLayoutCount(s.activeGraphicsPipelineLayout),
                                           s.renderDescriptorSets, FALSE,
                                           s.dirtyGraphicsState.descriptorSetDirtyIndex)
                   ELSE s
         IN [s1 EXCEPT !.dirtyGraphicsState.descriptorSets = FALSE,
                       !.dirtyGraphicsState.descriptorSetDirtyIndex =
                           MAX_DESCRIPTOR_SET_BINDINGS + 1]
    ELSE s

RECURSIVE FlushGraphicsPushConstantsFrom(_, _)
FlushGraphicsPushConstantsFrom(s, k) ==
    IF k > Len(s.pushConstants) THEN s
    ELSE LET pushConstant == s.pushConstants[k]
             bindIndex == PUSH_CONSTANTS_BINDING_INDEX + pushConstant.binding
             s1 == IF "VERTEX" \in pushConstant.stageFlags
                   THEN Emit(s, "setVertexBytes",
                             <<pushConstant.data, pushConstant.size, bindIndex>>)
                   ELSE s
             s2 == IF "PIXEL" \in pushConstant.stageFlags
                   THEN Emit(s1, "setFragmentBytes",
                             <<pushConstant.data, pushConstant.size, bindIndex>>)
                   ELSE s1
         IN FlushGraphicsPushConstantsFrom(s2, k + 1)

FlushGraphicsPushConstants(s) ==
    IF s.dirtyGraphicsState.pushConstants
    THEN [FlushGraphicsPushConstantsFrom(s, 1)
             EXCEPT !.stateCache.lastPushConstants = s.pushConstants,
                    !.dirtyGraphicsState.pushConstants = FALSE]
    ELSE s

checkForUpdatesInGraphicsState(s, ub) ==
    LET s1 == FlushPipelineState(s)
    IN IF s1.dirtyGraphicsState.viewports /\ s1.viewportVector = <<>> THEN s1
       ELSE LET s2 == FlushViewports(s1)
            IN IF s2.dirtyGraphicsState.depthBias /\ s2.activeRenderState = Null /\ ub.crash
               THEN Crash(s2)
               ELSE LET s3 == FlushDepthBias(s2, ub)
                    IN IF s3.dirtyGraphicsState.scissors /\ s3.scissorVector = <<>> THEN s3
                       ELSE FlushGraphicsPushConstants(
                                FlushDescriptorSets(FlushVertexBuffers(FlushScissors(s3))))

\* ------------------------------------------------------------------------
\* MetalCommandList::checkActiveComputeEncoder
\* ------------------------------------------------------------------------
RECURSIVE FlushComputePushConstantsFrom(_, _)
FlushComputePushConstantsFrom(s, k) ==
    IF k > Len(s.pushConstants) THEN s
    ELSE LET pushConstant == s.pushConstants[k]
             bindIndex == PUSH_CONSTANTS_BINDING_INDEX + pushConstant.binding
         IN FlushComputePushConstantsFrom(
                IF "COMPUTE" \in pushConstant.stageFlags
                THEN Emit(s, "setBytes", <<pushConstant.data, pushConstant.size, bindIndex>>)
                ELSE s,
                k + 1)

checkActiveComputeEncoder(s, ub) ==
    LET s1 == [endOtherEncoders(s, "Compute") EXCEPT !.activeType = "Compute"]
        s2 == IF s1.activeComputeEncoder = Null
              THEN [Emit(NoteOpen(s1), "computeCommandEncoder", <<"Compute">>)
                       EXCEPT !.activeComputeEncoder = "open",
                              !.dirtyComputeState = ComputeSetAll]
              ELSE s1
    IN IF s2.dirtyComputeState.pipelineState /\ s2.activeComputeState = Null /\ ub.crash
       THEN Crash(s2)
       ELSE
       LET s3 == IF s2.dirtyComputeState.pipelineState
                 THEN [Emit(s2, "setComputePipelineState",
                            <<IF s2.activeComputeState = Null THEN "garbage"
                              ELSE s2.activeComputeState>>)
                          EXCEPT !.dirtyComputeState.pipelineState = FALSE]
                 ELSE s2
       IN IF s3.dirtyComputeState.descriptorSets /\ s3.activeComputePipelineLayout = Null
             /\ ub.crash
          THEN Crash(s3)
          ELSE
          LET count == IF s3.activeComputePipelineLayout = Null
                       THEN (IF ub.flag THEN MAX_DESCRIPTOR_SET_BINDINGS ELSE 0)
                       ELSE SetLayoutCount(s3.activeComputePipelineLayout)
              s4 == IF s3.dirtyComputeState.descriptorSets
                    THEN [bindDescriptorSets(s3, count, s3.computeDescriptorSets, TRUE,
                                             s3.dirtyComputeState.descriptorSetDirtyIndex)
                             EXCEPT !.dirtyComputeState.descriptorSets = FALSE,
                                    !.dirtyComputeState.descriptorSetDirtyIndex =
                                        MAX_DESCRIPTOR_SET_BINDINGS]
                    ELSE s3
          IN IF s4.dirtyComputeState.pushConstants
             THEN [FlushComputePushConstantsFrom(s4, 1)
                      EXCEPT !.stateCache.lastPushConstants = s4.pushConstants,
                             !.dirtyComputeState.pushConstants = FALSE]
             ELSE s4

\* ------------------------------------------------------------------------
\* The operations of MetalCommandList, as functions of the object's state
\* ------------------------------------------------------------------------
begin(s) == [s EXCEPT !.mtl = "commandBuffer"]

\* Variant that leaves the vertex-buffer bindings of the recording in place.
end_KeepsVertexBuffers(s) ==
    LET s1 == handlePendingClears(endActiveRenderEncoder(s))
        s2 == endActiveComputeEncoder(
                  endActiveBlitEncoder(endActiveResolveTextureComputeEncoder(s1)))
    IN [s2 EXCEPT !.targetFramebuffer = Null]

end(s) ==
    LET s1 == handlePendingClears(endActiveRenderEncoder(s))
        s2 == endActiveComputeEncoder(
                  endActiveBlitEncoder(endActiveResolveTextureComputeEncoder(s1)))
    IN [s2 EXCEPT !.targetFramebuffer = Null,
                  !.vertexBuffers = [i \in VertexSlots |-> Null],
                  !.vertexBufferOffsets = [i \in VertexSlots |-> 0]]

commit(s) == [Emit(s, "commit", <<>>) EXCEPT !.mtl = Null]

\* Variant that ends the render encoder but leaves a pending clear unflushed.
barriers_KeepsPendingClears(s, bufferBarriersCount, textureBarriersCount) ==
    IF bufferBarriersCount = 0 /\ textureBarriersCount = 0 THEN s
    ELSE endActiveRenderEncoder(s)

barriers(s, bufferBarriersCount, textureBarriersCount) ==
    IF bufferBarriersCount = 0 /\ textureBarriersCount = 0 THEN s
    ELSE handlePendingClears(endActiveRenderEncoder(s))

dispatch(s, ub) ==
    LET s1 == checkActiveComputeEncoder(s, ub)
    IN IF s1.crashed THEN s1
       ELSE IF s1.activeComputeState = Null
            THEN (IF ub.crash THEN Crash(s1)
                  ELSE Emit(s1, "dispatchThreadgroups", <<"garbage">>))
            ELSE Emit(s1, "dispatchThreadgroups", <<s1.activeComputeState>>)

NoteDraw(s, name, count, primitiveType, opened) ==
    [Emit(s, name, <<primitiveType, count>>)
        EXCEPT !.drawCount = @ + 1,
               !.lastDraw = [call |-> name, count |-> count, primitiveType |-> primitiveType],
               !.encOnlyDraws = IF opened THEN TRUE ELSE @]

drawInstanced(s, vertexCountPerInstance, ub) ==
    LET s1 == checkActiveRenderEncoder(s)
        s2 == checkForUpdatesInGraphicsState(s1, ub)
    IN IF s2.crashed THEN s2
       ELSE IF s2.activeRenderState = Null
            THEN (IF ub.crash THEN Crash(s2)
                  ELSE NoteDraw(s2, "drawPrimitives", vertexCountPerInstance, ub.prim,
                                s2.renderOpens # s.renderOpens))
            ELSE NoteDraw(s2, "drawPrimitives", vertexCountPerInstance,
                          MetalRenderState(s2.activeRenderState).primitiveType,
                          s2.renderOpens # s.renderOpens)

drawIndexedInstanced(s, indexCountPerInstance, ub) ==
    LET s1 == checkActiveRenderEncoder(s)
        s2 == checkForUpdatesInGraphicsState(s1, ub)
    IN IF s2.crashed THEN s2
       ELSE NoteDraw(s2, "drawIndexedPrimitives", indexCountPerInstance,
                     s2.currentPrimitiveType, s2.renderOpens # s.renderOpens)

setPipeline(s, pipeline) ==
    IF pipeline \in ComputePipelines
    THEN IF s.activeComputeState # pipeline
         THEN [s EXCEPT !.activeComputeState = pipeline,
                        !.dirtyComputeState.pipelineState = TRUE]
         ELSE s
    ELSE LET s1 == [s EXCEPT !.currentPrimitiveType = MetalRenderState(pipeline).primitiveType]
         IN IF s1.activeRenderState # pipeline
            THEN [s1 EXCEPT !.activeRenderState = pipeline,
                            !.dirtyGraphicsState.pipelineState = TRUE]
            ELSE s1

setComputePipelineLayout(s, pipelineLayout) ==
    LET oldLayout == s.activeComputePipelineLayout
        s1 == [s EXCEPT !.activeComputePipelineLayout = pipelineLayout]
    IN IF oldLayout # pipelineLayout
       THEN [s1 EXCEPT !.computeDescriptorSets = [i \in SetSlots |-> Null],
                       !.pushConstants = <<>>,
                       !.stateCache.lastPushConstants = <<>>,
                       !.dirtyComputeState.descriptorSets = TRUE,
                       !.dirtyComputeState.pushConstants = TRUE,
                       !.dirtyComputeState.descriptorSetDirtyIndex = 0]
       ELSE s1

\* A change of graphics layout that keeps the descriptor sets bound.
setGraphicsPipelineLayout_KeepsSets(s, pipelineLayout) ==
    LET oldLayout == s.activeGraphicsPipelineLayout
        s1 == [s EXCEPT !.activeGraphicsPipelineLayout = pipelineLayout]
    IN IF oldLayout # pipelineLayout
       THEN [s1 EXCEPT !.pushConstants = <<>>,
                       !.stateCache.lastPushConstants = <<>>,
                       !.dirtyGraphicsState.descriptorSets = TRUE,
                       !.dirtyGraphicsState.pushConstants = TRUE,
                       !.dirtyGraphicsState.descriptorSetDirtyIndex = 0]
       ELSE s1

setGraphicsPipelineLayout(s, pipelineLayout) ==
    LET oldLayout == s.activeGraphicsPipelineLayout
        s1 == [s EXCEPT !.activeGraphicsPipelineLayout = pipelineLayout]
    IN IF oldLayout # pipelineLayout
       THEN [s1 EXCEPT !.renderDescriptorSets = [i \in SetSlots |-> Null],
                       !.pushConstants = <<>>,
                       !.stateCache.lastPushConstants = <<>>,
                       !.dirtyGraphicsState.descriptorSets = TRUE,
                       !.dirtyGraphicsState.pushConstants = TRUE,
                       !.dirtyGraphicsState.descriptorSetDirtyIndex = 0]
       ELSE s1

\* std::vector::resize on the push-constant table and on one range's bytes.
PushConstantDataDefault ==
    [binding |-> 0, set |-> 0, offset |-> 0, size |-> 0, stageFlags |-> {}, data |-> <<>>]

ResizePushConstants(v, n) ==
    [k \in 1 .. n |-> IF k <= Len(v) THEN v[k] ELSE PushConstantDataDefault]

ResizeBytes(v, n) == [k \in 1 .. n |-> IF k <= Len(v) THEN v[k] ELSE 0]

\* memcpy(dst.data() + offset, data, n)
Memcpy(dst, offset, data, n) ==
    [k \in 1 .. Len(dst) |->
        IF k > offset /\ k <= offset + n THEN data[k - offset] ELSE dst[k]]

SetPushConstantData(pushConstants, ranges, rangeIndex, data, offset, size) ==
    LET range == ranges[rangeIndex + 1]
        resized == ResizePushConstants(pushConstants, Len(ranges))
        bytes == ResizeBytes(resized[rangeIndex + 1].data, range.size)
    IN [resized EXCEPT ![rangeIndex + 1] =
            [binding |-> range.binding, set |-> range.set, offset |-> range.offset,
             size |-> alignUp(range.size), stageFlags |-> range.stageFlags,
             data |-> Memcpy(bytes, offset, data, IF size = 0 THEN range.size ELSE size)]]

setComputePushConstants(s, rangeIndex, data, offset, size) ==
    [s EXCEPT !.pushConstants =
                  SetPushConstantData(@, PushConstantRanges(s.activeComputePipelineLayout),
                                      rangeIndex, data, offset, size),
              !.dirtyComputeState.pushConstants = TRUE]

setGraphicsPushConstants(s, rangeIndex, data, offset, size) ==
    [s EXCEPT !.pushConstants =
                  SetPushConstantData(@, PushConstantRanges(s.activeGraphicsPipelineLayout),
                                      rangeIndex, data, offset, size),
              !.dirtyGraphicsState.pushConstants = TRUE]

setComputeDescriptorSet(s, descriptorSet, setIndex) ==
    IF s.computeDescriptorSets[setIndex] # descriptorSet
    THEN [s EXCEPT !.computeDescriptorSets[setIndex] = descriptorSet,
                   !.dirtyComputeState.descriptorSets = TRUE,
                   !.dirtyComputeState.descriptorSetDirtyIndex = Min(@, setIndex)]
    ELSE s

\* Variant that overwrites the dirty index with the index of the call.
setGraphicsDescriptorSet_LastIndex(s, descriptorSet, setIndex) ==
    IF s.renderDescriptorSets[setIndex] # descriptorSet
    THEN [s EXCEPT !.renderDescriptorSets[setIndex] = descriptorSet,
                   !.dirtyGraphicsState.descriptorSets = TRUE,
                   !.dirtyGraphicsState.descriptorSetDirtyIndex = setIndex]
    ELSE s

setGraphicsDescriptorSet(s, descriptorSet, setIndex) ==
    IF s.renderDescriptorSets[setIndex] # descriptorSet
    THEN [s EXCEPT !.renderDescriptorSets[setIndex] = descriptorSet,
                   !.dirtyGraphicsState.descriptorSets = TRUE,
                   !.dirtyGraphicsState.descriptorSetDirtyIndex = Min(@, setIndex)]
    ELSE s

\* view: [present, buffer, offset, format]; present = FALSE is the null view.
setIndexBuffer(s, view) ==
    IF view.present
    THEN [s EXCEPT !.indexBuffer = view.buffer,
                   !.indexBufferOffset = view.offset,
                   !.currentIndexType = view.format,
                   !.indexTypeSize = IF view.format = "UInt32" THEN 4 ELSE 2]
    ELSE s

\* views: a sequence of [buffer, offset]; a null buffer binds the null buffer.
RECURSIVE setVertexBuffersFrom(_, _, _, _)
setVertexBuffersFrom(s, startSlot, views, i) ==
    IF i >= Len(views) THEN s
    ELSE LET isNull == views[i + 1].buffer = Null
             bufferIndex == startSlot + i
         IN setVertexBuffersFrom(
                [s EXCEPT !.vertexBuffers[bufferIndex] =
                              IF isNull THEN "nullBuffer" ELSE views[i + 1].buffer,
                          !.vertexBufferOffsets[bufferIndex] =
                              IF isNull THEN 0 ELSE views[i + 1].offset,
                          !.dirtyGraphicsState.vertexBufferSlots = @ \cup {bufferIndex}],
                startSlot, views, i + 1)

setVertexBuffers(s, startSlot, views) ==
    IF Len(views) > 0 THEN setVertexBuffersFrom(s, startSlot, views, 0) ELSE s

setViewports(s, viewports) ==
    LET s1 == [s EXCEPT !.viewportVector = viewports]
    IN IF s1.viewportVector # s1.stateCache.lastViewports
       THEN [s1 EXCEPT !.dirtyGraphicsState.viewports = TRUE]
       ELSE s1

clampScissorRectIfNecessary(rect, targetFramebuffer) ==
    LET left == Max(0, rect.left)
        top == Max(0, rect.top)
        right == Max(0, rect.right)
        bottom == Max(0, rect.bottom)
    IN IF left >= right \/ top >= bottom
       THEN [x |-> 0, y |-> 0, width |-> 0, height |-> 0]
       ELSE LET clampedRect == [x |-> left, y |-> top,
                                width |-> right - left, height |-> bottom - top]
            IN IF targetFramebuffer = Null \/ ColorAttachmentCount(targetFramebuffer) = 0
               THEN clampedRect
               ELSE LET maxWidth == FramebufferWidth(targetFramebuffer)
                        maxHeight == FramebufferHeight(targetFramebuffer)
                    IN [x |-> left, y |-> top,
                        width |-> IF left + clampedRect.width > maxWidth
                                  THEN (IF maxWidth > left THEN maxWidth - left ELSE 0)
                                  ELSE clampedRect.width,
                        height |-> IF top + clampedRect.height > maxHeight
                                   THEN (IF maxHeight > top THEN maxHeight - top ELSE 0)
                                   ELSE clampedRect.height]

setScissors(s, scissorRects) ==
    LET s1 == [s EXCEPT !.scissorVector =
                   [k \in 1 .. Len(scissorRects) |->
                       clampScissorRectIfNecessary(scissorRects[k], s.targetFramebuffer)]]
    IN IF s1.scissorVector # s1.stateCache.lastScissors
       THEN [s1 EXCEPT !.dirtyGraphicsState.scissors = TRUE]
       ELSE s1

ClearValueDefault == "default"

setFramebuffer(s, framebuffer) ==
    LET s1 == handlePendingClears(endActiveRenderEncoder(endOtherEncoders(s, "Render")))
        s2 == [s1 EXCEPT !.activeType = "Render"]
    IN IF framebuffer # Null
       THEN LET totalAttachments == ColorAttachmentCount(framebuffer) + 2
            IN [s2 EXCEPT !.targetFramebuffer = framebuffer,
                          !.dirtyGraphicsState = GraphicsSetAll,
                          !.pendingClears =
                              [initialAction |-> [i \in 0 .. (totalAttachments - 1) |-> "Load"],
                               clearValues |-> [i \in 0 .. (totalAttachments - 1) |->
                                                   ClearValueDefault],
                               active |-> FALSE]]
       ELSE [s2 EXCEPT !.targetFramebuffer = Null]

setDepthBias(s, bias) == [s EXCEPT !.dynamicDepthBias = bias]

\* ------------------------------------------------------------------------
\* Clears
\* ------------------------------------------------------------------------

\* The quad-based clear of clearColor / clearDepthStencil with rectangles:
\* the clear pipeline and its state are bound over the open render encoder.
setCommonClearState(s) ==
    Emit(Emit(Emit(Emit(Emit(s,
        "setViewport", <<FramebufferWidth(s.targetFramebuffer),
                         FramebufferHeight(s.targetFramebuffer)>>),
        "setScissorRect", <<clampScissorRectIfNecessary(
                                [left |-> 0, top |-> 0,
                                 right |-> FramebufferWidth(s.targetFramebuffer),
                                 bottom |-> FramebufferHeight(s.targetFramebuffer)],
                                s.targetFramebuffer)>>),
        "setTriangleFillMode", <<"Fill">>),
        "setCullMode", <<"None">>),
        "setDepthBias", <<0, 0, 0>>)

ClearQuads(s, pipelineKey, value, clearRectsCount) ==
    LET rectCount == IF clearRectsCount > 0 THEN clearRectsCount ELSE 1
        s1 == setCommonClearState(Emit(s, "setRenderPipelineState", <<"clear", pipelineKey>>))
        s2 == Emit(Emit(s1, "setVertexBytes", <<6 * rectCount, 0>>),
                   "setFragmentBytes", <<value, rectCount, 0>>)
    IN Emit(s2, "drawPrimitives", <<"Triangle", 6 * rectCount>>)

\* A partial clear that leaves the dirty flags as they were.
clearColor_LeavesFlags(s, attachmentIndex, colorValue, clearRectsCount) ==
    IF clearRectsCount = 0
    THEN [s EXCEPT !.pendingClears.initialAction[attachmentIndex] = "Clear",
                   !.pendingClears.clearValues[attachmentIndex] = colorValue,
                   !.pendingClears.active = TRUE]
    ELSE LET s1 == checkActiveRenderEncoder(s)
             previousCache == s1.stateCache
             s2 == IF HasDepthAttachment(s1.targetFramebuffer)
                   THEN Emit(s1, "setDepthStencilState", <<"depthWriteDisabled">>)
                   ELSE s1
             s3 == ClearQuads(s2, <<"color", attachmentIndex>>, colorValue, clearRectsCount)
         IN [s3 EXCEPT !.stateCache = previousCache]

clearColor(s, attachmentIndex, colorValue, clearRectsCount) ==
    IF clearRectsCount = 0
    THEN [s EXCEPT !.pendingClears.initialAction[attachmentIndex] = "Clear",
                   !.pendingClears.clearValues[attachmentIndex] = colorValue,
                   !.pendingClears.active = TRUE]
    ELSE LET s1 == checkActiveRenderEncoder(s)
             previousCache == s1.stateCache
             s2 == IF HasDepthAttachment(s1.targetFramebuffer)
                   THEN Emit(s1, "setDepthStencilState", <<"depthWriteDisabled">>)
                   ELSE s1
             s3 == ClearQuads(s2, <<"color", attachmentIndex>>, colorValue, clearRectsCount)
         IN [s3 EXCEPT !.stateCache = previousCache,
                       !.dirtyGraphicsState = GraphicsSetAll]

clearDepthStencil(s, clearDepth, clearStencil, depthValue, stencilValue, clearRectsCount) ==
    IF ~(clearDepth \/ clearStencil) THEN s
    ELSE IF clearRectsCount = 0
    THEN LET depthIndex == ColorAttachmentCount(s.targetFramebuffer)
             s1 == IF clearDepth
                   THEN [s EXCEPT !.pendingClears.initialAction[depthIndex] = "Clear",
                                  !.pendingClears.clearValues[depthIndex] = depthValue]
                   ELSE s
             s2 == IF clearStencil
                   THEN [s1 EXCEPT !.pendingClears.initialAction[depthIndex + 1] = "Clear",
                                   !.pendingClears.clearValues[depthIndex + 1] = stencilValue]
                   ELSE s1
         IN [s2 EXCEPT !.pendingClears.active = TRUE]
    ELSE LET s1 == checkActiveRenderEncoder(s)
             previousCache == s1.stateCache
             s2 == Emit(s1, "setDepthStencilState",
                        <<IF clearDepth /\ clearStencil THEN "clearDepthStencilState"
                          ELSE IF clearDepth THEN "clearDepthState"
                          ELSE "clearStencilState">>)
             s3 == ClearQuads(s2, <<"depth", clearDepth, clearStencil>>, depthValue,
                              clearRectsCount)
         IN [s3 EXCEPT !.stateCache = previousCache,
                       !.dirtyGraphicsState = GraphicsSetAll]

\* ------------------------------------------------------------------------
\* Copies and resolves
\* ------------------------------------------------------------------------
Copy(s, call) ==
    LET s1 == checkActiveBlitEncoder(endOtherEncoders(s, "Blit"))
    IN Emit([s1 EXCEPT !.activeType = "Blit"], call, <<>>)

copyBufferRegion(s) == Copy(s, "copyFromBuffer")

copyTextureRegion(s, fromPlacedFootprint) ==
    Copy(s, IF fromPlacedFootprint THEN "copyFromBufferToTexture" ELSE "copyFromTexture")

copyBuffer(s) == Copy(s, "copyFromBuffer")

copyTexture(s) == Copy(s, "copyFromTexture")

resolveTexture(s) ==
    LET s1 == handlePendingClears(endActiveRenderEncoder(endOtherEncoders(s, "Render")))
        s2 == [s1 EXCEPT !.activeType = "Render"]
        s3 == Emit(Emit(NoteOpen(s2), "renderCommandEncoder", <<"MultisampleResolve">>),
                   "endEncoding", <<"MultisampleResolve">>)
    IN [s3 EXCEPT !.renderOpens = @ + 1, !.renderCloses = @ + 1]

resolveTextureRegion(s, canUseFullResolve) ==
    IF canUseFullResolve THEN resolveTexture(s)
    ELSE LET s1 == checkActiveResolveTextureComputeEncoder(endOtherEncoders(s, "Resolve"))
         IN Emit([s1 EXCEPT !.activeType = "Resolve"], "dispatchThreadgroups", <<"resolve">>)

\* ------------------------------------------------------------------------
\* The swap chain after construction (its operations are further below)
\* ------------------------------------------------------------------------
DrawableSlots == 0 .. (MAX_DRAWABLES - 1)

\* Native drawables are numbered from 1; 0 is the null drawable.
NullDrawable == 0

\* Window sizes getWindowSize can report, as <<width, height>>.
WindowSizes == {<<0, 0>>, <<4, 4>>, <<8, 4>>}

NewSwapChain ==
    [drawables |-> [i \in DrawableSlots |-> NullDrawable],
     drawableDesc |-> [i \in DrawableSlots |-> <<4, 4>>], \* desc.width, desc.height
     currentAvailableDrawableIndex |-> 0,
     width |-> 4,
     height |-> 4,
     \* the environment of the swap chain
     layerDrawableSize |-> <<4, 4>>, \* layer->drawableSize()
     setDrawableSizeCalls |-> 0,  \* layer->setDrawableSize calls so far
     inFlight |-> <<>>,        \* present command buffers committed, not completed
     drawablesVended |-> 0,    \* native drawables handed out by the layer
     completedPresents |-> 0,  \* completed handlers that have run to their end
     handler |-> "idle",       \* "read": a completed handler has read the index
     handlerRead |-> 0,        \* the index value that handler read
     \* the application thread
     pc |-> "idle",            \* "acquire": inside acquireTexture, after nextDrawable
     nextDrawable |-> NullDrawable,
     textureIndex |-> 0,       \* the caller's *textureIndex
     passedIndex |-> 0,        \* *textureIndex when acquireTexture was last called
     repeatedResize |-> FALSE, \* the last call was a resize() that followed a resize()
                               \* and found the window size of that one
     lastCall |-> "none",
     result |-> "none",        \* return value of the last call
     \* slots returned by acquireTexture whose present has not completed
     awaitingPresent |-> [i \in DrawableSlots |-> FALSE]]

\* ------------------------------------------------------------------------
\* Recording: one action per operation of the command list.  Commands are
\* recorded on the command buffer that begin() allocated; a process that
\* died records nothing more.
\* ------------------------------------------------------------------------
\* Commands are recorded between begin() and end(); after end() the command
\* buffer is committed by the queue.
CanRecord == cl.mtl # Null /\ lastOp.name # "end" /\ ~cl.crashed /\ opCount < limit

\* The state an operation starts from: no native call issued yet.
Start == [cl EXCEPT !.calls = <<>>, !.encOnlyDraws = FALSE]
StartDraw == [cl EXCEPT !.calls = <<>>]

CopyOps == {"copyBufferRegion", "copyTextureRegion", "copyBuffer", "copyTexture"}
DrawOps == {"drawInstanced", "drawIndexedInstanced"}

\* The commands that belong to the render kind: they record on, or set up,
\* a render pass.
RenderSpecificOps ==
    DrawOps \cup {"clearColor", "clearDepthStencil", "setFramebuffer",
                  "resolveTexture", "resolveTextureRegion"}

\* Progress of the run along the recording
\*   begin, setFramebuffer(fb), clearColor(0, c, null, 0), drawInstanced(3,1,0,0), end
\* (-1 once the run has left it).
ScenarioNext(k, name, args) ==
    IF \/ k = 0 /\ name = "begin"
       \/ k = 1 /\ name = "setFramebuffer" /\ args[1] # Null
       \/ k = 2 /\ name = "clearColor" /\ args[1] = 0 /\ args[3] = 0
       \/ k = 3 /\ name = "drawInstanced" /\ args[1] = 3
       \/ k = 4 /\ name = "end"
    THEN k + 1
    ELSE IF k \in {2, 3} /\ name \in {"setPipeline", "setViewports", "setScissors"}
         THEN k   \* state set for the draw: records nothing on the command buffer
         ELSE -1

\* The descriptor sets bound on the open render or compute encoder after the
\* native calls from the k-th on: a bind of an argument buffer adds its set,
\* the end of the encoder forgets them all.
BoundAfter(bound, calls, k) ==
    LET closes == {i \in k .. Len(calls) : /\ calls[i].call = "endEncoding"
                                            /\ calls[i].arg[1] \in {"Render", "Compute"}}
        from == IF closes = {} THEN k
                ELSE (CHOOSE i \in closes : \A j \in closes : j <= i) + 1
        binds == {i \in from .. Len(calls) : calls[i].call \in {"setFragmentBuffer", "setBuffer"}}
    IN (IF closes = {} THEN bound ELSE {}) \cup {calls[i].arg[1] : i \in binds}

\* What has been recorded in a domain since its last flush, after the
\* operation name(args): a flush starts anew, a descriptor-set call of the
\* domain that changed a pointer lowers the index, any other operation than
\* a descriptor-set call ends the quiet.
SinceFlush(since, name, args, changed, setter, flushes) ==
    IF name \in flushes THEN [lowest |-> MAX_DESCRIPTOR_SET_BINDINGS, quiet |-> TRUE]
    ELSE IF name = setter /\ changed THEN [since EXCEPT !.lowest = Min(@, args[2])]
    ELSE IF name \in {"setGraphicsDescriptorSet", "setComputeDescriptorSet"} THEN since
    ELSE [since EXCEPT !.quiet = FALSE]

\* A full resolve opens a render pass of its own on the resolved textures.
FullResolve(name, args) ==
    name = "resolveTexture" \/ (name = "resolveTextureRegion" /\ args[1])

\* Positions, among the native calls of the operation name(args), of the
\* render passes it opened on the target framebuffer.
FramebufferPasses(calls, name, args) ==
    {k \in DOMAIN calls :
        /\ calls[k].call = "renderCommandEncoder"
        /\ FullResolve(name, args) =>
              \E j \in DOMAIN calls : j > k /\ calls[j].call = "renderCommandEncoder"}

\* The full clears awaiting a render pass after the operation name(args) on
\* a framebuffer with depthIndex colour attachments: a full clear records
\* its value, a render pass opened on the framebuffer takes them all.
FullClearsAfter(owed, name, args, depthIndex, opened) ==
    IF name = "clearColor" /\ args[3] = 0 THEN [owed EXCEPT ![args[1]] = args[2]]
    ELSE IF name = "clearDepthStencil" /\ args[5] = 0
         THEN [i \in ClearSlots |->
                  IF i = depthIndex /\ args[1] THEN args[3]
                  ELSE IF i = depthIndex + 1 /\ args[2] THEN args[4]
                  ELSE owed[i]]
    ELSE IF opened THEN NoFullClears
    ELSE owed

Record(name, args, result) ==
    /\ \E r \in {result} :
          cl' = [r EXCEPT
                    !.boundSets = BoundAfter(cl.boundSets, r.calls, 1),
                    !.graphicsSince =
                        SinceFlush(@, name, args, r.renderDescriptorSets # cl.renderDescriptorSets,
                                   "setGraphicsDescriptorSet", DrawOps),
                    !.computeSince =
                        SinceFlush(@, name, args, r.computeDescriptorSets # cl.computeDescriptorSets,
                                   "setComputeDescriptorSet", {"dispatch"}),
                    !.scenario = IF r.crashed THEN -1 ELSE ScenarioNext(@, name, args),
                    !.fullClears =
                        FullClearsAfter(@, name, args, 1, FramebufferPasses(r.calls, name, args) # {}),
                    !.renderClosedByCopy =
                        IF name \in CopyOps /\ cl.activeRenderEncoder # Null THEN TRUE
                        ELSE IF name \in RenderSpecificOps THEN FALSE ELSE @]
    /\ lastOp' = [name |-> name, args |-> args]
    /\ opCount' = opCount + 1
    /\ UNCHANGED <<limit, sc, scOps, q, dset, dev, conv>>

Begin ==
    /\ cl.mtl = Null /\ ~cl.crashed /\ opCount < limit
    /\ Record("begin", <<>>, begin(Start))

End ==
    /\ CanRecord
    /\ Record("end", <<>>, end(Start))

Commit ==
    /\ cl.mtl # Null /\ lastOp.name = "end" /\ opCount < limit
    /\ Record("commit", <<>>, commit(Start))

Barriers ==
    /\ CanRecord
    /\ \E bufferBarriersCount \in {0, 1}, textureBarriersCount \in {0, 1} :
          Record("barriers", <<bufferBarriersCount, textureBarriersCount>>, barriers(Start, bufferBarriersCount, textureBarriersCount))

Dispatch ==
    /\ CanRecord
    /\ \E ub \in ComputeUBChoices(cl) : Record("dispatch", <<>>, dispatch(Start, ub))

DrawInstanced ==
    /\ CanRecord /\ cl.targetFramebuffer # Null
    /\ \E vertexCountPerInstance \in VertexCounts, ub \in GraphicsUBChoices(cl, TRUE) :
          Record("drawInstanced", <<vertexCountPerInstance>>, drawInstanced(StartDraw, vertexCountPerInstance, ub))

DrawIndexedInstanced ==
    /\ CanRecord /\ cl.targetFramebuffer # Null
    /\ \E indexCountPerInstance \in VertexCounts, ub \in GraphicsUBChoices(cl, FALSE) :
          Record("drawIndexedInstanced", <<indexCountPerInstance>>,
                 drawIndexedInstanced(StartDraw, indexCountPerInstance, ub))

SetPipeline ==
    /\ CanRecord
    /\ \E pipeline \in GraphicsPipelines \cup ComputePipelines :
          Record("setPipeline", <<pipeline>>, setPipeline(Start, pipeline))

SetComputePipelineLayout ==
    /\ CanRecord
    /\ \E pipelineLayout \in PipelineLayouts :
          Record("setComputePipelineLayout", <<pipelineLayout>>,
                 setComputePipelineLayout(Start, pipelineLayout))

SetGraphicsPipelineLayout ==
    /\ CanRecord
    /\ \E pipelineLayout \in PipelineLayouts :
          Record("setGraphicsPipelineLayout", <<pipelineLayout>>,
                 setGraphicsPipelineLayout(Start, pipelineLayout))

\* The (offset, size) pairs and source bytes a caller passes; the copy stays
\* inside the range's buffer.
PushConstantArgs == {[offset |-> 0, size |-> 0], [offset |-> 1, size |-> 1]}
PushConstantBytes == {1, 2}
CopiedBytes(range, a) == IF a.size = 0 THEN range.size ELSE a.size

SetComputePushConstants ==
    /\ CanRecord /\ cl.activeComputePipelineLayout # Null
    /\ LET ranges == PushConstantRanges(cl.activeComputePipelineLayout)
       IN \E rangeIndex \in 0 .. (Len(ranges) - 1), a \in PushConstantArgs,
             b \in PushConstantBytes :
             /\ a.offset + CopiedBytes(ranges[rangeIndex + 1], a) <= ranges[rangeIndex + 1].size
             /\ Record("setComputePushConstants", <<rangeIndex, b, a.offset, a.size>>,
                       setComputePushConstants(Start, rangeIndex,
                           [k \in 1 .. CopiedBytes(ranges[rangeIndex + 1], a) |-> b],
                           a.offset, a.size))

SetGraphicsPushConstants ==
    /\ CanRecord /\ cl.activeGraphicsPipelineLayout # Null
    /\ LET ranges == PushConstantRanges(cl.activeGraphicsPipelineLayout)
       IN \E rangeIndex \in 0 .. (Len(ranges) - 1), a \in PushConstantArgs,
             b \in PushConstantBytes :
             /\ a.offset + CopiedBytes(ranges[rangeIndex + 1], a) <= ranges[rangeIndex + 1].size
             /\ Record("setGraphicsPushConstants", <<rangeIndex, b, a.offset, a.size>>,
                       setGraphicsPushConstants(Start, rangeIndex,
                           [k \in 1 .. CopiedBytes(ranges[rangeIndex + 1], a) |-> b],
                           a.offset, a.size))

\* Every (offset, size) pair the asserts of the push-constant setters let
\* through: they check the range index and the binding only.
AcceptedPushConstantArgs == {[offset |-> o, size |-> n] : o \in 0 .. 2, n \in 0 .. 2}

\* memcpy(dst.data() + offset, data, n) on a buffer of the range's size
\* writes the positions offset + 1 .. offset + n.
WrittenBytes(range, a) == (a.offset + 1) .. (a.offset + CopiedBytes(range, a))

\* A copy that leaves the buffer writes heap memory next to it: the process
\* dies, or goes on with the buffer's part of the copy in place.
CopyOutcomes(range, a) ==
    IF WrittenBytes(range, a) \subseteq 1 .. range.size THEN {FALSE} ELSE BOOLEAN

SetComputePushConstantsAccepted ==
    /\ CanRecord /\ cl.activeComputePipelineLayout # Null
    /\ \E ranges \in {PushConstantRanges(cl.activeComputePipelineLayout)} :
       \E rangeIndex \in 0 .. (Len(ranges) - 1), a \in AcceptedPushConstantArgs,
          b \in PushConstantBytes :
       \E dies \in CopyOutcomes(ranges[rangeIndex + 1], a) :
          Record("setComputePushConstants", <<rangeIndex, b, a.offset, a.size>>,
                 IF dies THEN Crash(Start)
                 ELSE setComputePushConstants(Start, rangeIndex,
                          [k \in 1 .. CopiedBytes(ranges[rangeIndex + 1], a) |-> b],
                          a.offset, a.size))

SetGraphicsPushConstantsAccepted ==
    /\ CanRecord /\ cl.activeGraphicsPipelineLayout # Null
    /\ \E ranges \in {PushConstantRanges(cl.activeGraphicsPipelineLayout)} :
       \E rangeIndex \in 0 .. (Len(ranges) - 1), a \in AcceptedPushConstantArgs,
          b \in PushConstantBytes :
       \E dies \in CopyOutcomes(ranges[rangeIndex + 1], a) :
          Record("setGraphicsPushConstants", <<rangeIndex, b, a.offset, a.size>>,
                 IF dies THEN Crash(Start)
                 ELSE setGraphicsPushConstants(Start, rangeIndex,
                          [k \in 1 .. CopiedBytes(ranges[rangeIndex + 1], a) |-> b],
                          a.offset, a.size))

SetIndexes == {0, 1}

SetComputeDescriptorSet ==
    /\ CanRecord
    /\ \E descriptorSet \in DescriptorSets \cup {Null}, setIndex \in SetIndexes :
          Record("setComputeDescriptorSet", <<descriptorSet, setIndex>>,
                 setComputeDescriptorSet(Start, descriptorSet, setIndex))

SetGraphicsDescriptorSet ==
    /\ CanRecord
    /\ \E descriptorSet \in DescriptorSets \cup {Null}, setIndex \in SetIndexes :
          Record("setGraphicsDescriptorSet", <<descriptorSet, setIndex>>,
                 setGraphicsDescriptorSet(Start, descriptorSet, setIndex))

IndexBufferViews ==
    {[present |-> FALSE, buffer |-> Null, offset |-> 0, format |-> "UInt32"],
     [present |-> TRUE, buffer |-> "ib0", offset |-> 8, format |-> "UInt16"],
     [present |-> TRUE, buffer |-> "ib0", offset |-> 0, format |-> "UInt32"]}

SetIndexBuffer ==
    /\ CanRecord
    /\ \E view \in IndexBufferViews : Record("setIndexBuffer", <<view>>, setIndexBuffer(Start, view))

VertexBufferViews ==
    {<<>>, <<[buffer |-> "vb0", offset |-> 0]>>, <<[buffer |-> Null, offset |-> 4]>>,
     <<[buffer |-> "vb1", offset |-> 4], [buffer |-> "vb0", offset |-> 0]>>}
StartSlots == {0, MAX_VERTEX_BUFFER_BINDINGS - 1}

SetVertexBuffers ==
    /\ CanRecord
    /\ \E startSlot \in StartSlots, views \in VertexBufferViews :
          /\ startSlot + Len(views) <= MAX_VERTEX_BUFFER_BINDINGS
          /\ Record("setVertexBuffers", <<startSlot, views>>,
                    setVertexBuffers(Start, startSlot, views))

SetViewports ==
    /\ CanRecord
    /\ \E viewports \in {<<>>} \cup {<<v>> : v \in Viewports} :
          Record("setViewports", <<viewports>>, setViewports(Start, viewports))

SetScissors ==
    /\ CanRecord
    /\ \E scissorRects \in {<<>>} \cup {<<r>> : r \in RenderRects} :
          Record("setScissors", <<scissorRects>>, setScissors(Start, scissorRects))

SetFramebuffer ==
    /\ CanRecord
    /\ \E framebuffer \in Framebuffers \cup {Null} :
          Record("setFramebuffer", <<framebuffer>>, setFramebuffer(Start, framebuffer))

SetDepthBias ==
    /\ CanRecord
    /\ \E bias \in DepthBiasValues : Record("setDepthBias", <<bias>>, setDepthBias(Start, bias))

ClearRectsCounts == {0, 1}

ClearColor ==
    /\ CanRecord /\ cl.targetFramebuffer # Null
    /\ \E attachmentIndex \in 0 .. (ColorAttachmentCount(cl.targetFramebuffer) - 1),
          colorValue \in Colors, clearRectsCount \in ClearRectsCounts :
          Record("clearColor", <<attachmentIndex, colorValue, clearRectsCount>>,
                 clearColor(Start, attachmentIndex, colorValue, clearRectsCount))

ClearDepthStencil ==
    /\ CanRecord /\ cl.targetFramebuffer # Null /\ HasDepthAttachment(cl.targetFramebuffer)
    /\ \E clearDepth \in BOOLEAN, clearStencil \in BOOLEAN, depthValue \in DepthValues,
          stencilValue \in StencilValues, clearRectsCount \in ClearRectsCounts :
          Record("clearDepthStencil",
                 <<clearDepth, clearStencil, depthValue, stencilValue, clearRectsCount>>,
                 clearDepthStencil(Start, clearDepth, clearStencil, depthValue, stencilValue,
                                   clearRectsCount))

CopyBufferRegion ==
    /\ CanRecord
    /\ Record("copyBufferRegion", <<>>, copyBufferRegion(Start))

CopyTextureRegion ==
    /\ CanRecord
    /\ \E fromPlacedFootprint \in BOOLEAN :
          Record("copyTextureRegion", <<fromPlacedFootprint>>,
                 copyTextureRegion(Start, fromPlacedFootprint))

CopyBuffer ==
    /\ CanRecord
    /\ Record("copyBuffer", <<>>, copyBuffer(Start))

CopyTexture ==
    /\ CanRecord
    /\ Record("copyTexture", <<>>, copyTexture(Start))

ResolveTexture ==
    /\ CanRecord
    /\ Record("resolveTexture", <<>>, resolveTexture(Start))

ResolveTextureRegion ==
    /\ CanRecord
    /\ \E canUseFullResolve \in BOOLEAN :
          /\ canUseFullResolve \/ cl.targetFramebuffer # Null
          /\ Record("resolveTextureRegion", <<canUseFullResolve>>,
                    resolveTextureRegion(Start, canUseFullResolve))

\* ------------------------------------------------------------------------
\* MetalDescriptorSetLayout and MetalDescriptorSet.
\*
\* A RenderDescriptorSetDesc is [descriptorRanges, lastRangeIsBoundless,
\* boundlessRangeSize]; a range is [type, binding, count]. An argument
\* descriptor is [dataType, index, arrayLength]. Vectors are sequences, so
\* the element the code names v[i] is v[i + 1] here.
\* ------------------------------------------------------------------------
MaxRanges == 3
MaxSetRanges == 2
MaxDescOps == 2

\* capabilities.maxTextureSize of a device of family Apple3 or later.
maxTextureSize == 16384

RangeTypes == {"TEXTURE", "SAMPLER", "CONSTANT_BUFFER"}
RangeBindings == {0, 1, 2, 5}
RangeCounts == {1, 2}
BoundlessRangeSizes == {0, 4}
SetRangeBindings == {0, 2}

\* The descriptions with at most n ranges, each on a binding of its own.
DescriptorSetDescs(n, bindings, sizes) ==
    {[descriptorRanges |-> r, lastRangeIsBoundless |-> b, boundlessRangeSize |-> z] :
        r \in {x \in UNION {[1 .. k -> [type : RangeTypes, binding : bindings, count : RangeCounts]] :
                               k \in 1 .. n} :
                  \A i, j \in DOMAIN x : x[i].binding = x[j].binding => i = j},
        b \in BOOLEAN, z \in sizes}

mapDataType(type) ==
    IF type \in {"TEXTURE", "READ_WRITE_TEXTURE", "FORMATTED_BUFFER", "READ_WRITE_FORMATTED_BUFFER"}
    THEN "Texture"
    ELSE IF type = "ACCELERATION_STRUCTURE" THEN "PrimitiveAccelerationStructure"
    ELSE IF type \in {"STRUCTURED_BUFFER", "BYTE_ADDRESS_BUFFER", "READ_WRITE_STRUCTURED_BUFFER",
                      "READ_WRITE_BYTE_ADDRESS_BUFFER", "CONSTANT_BUFFER"}
         THEN "Pointer"
    ELSE IF type = "SAMPLER" THEN "Sampler"
    ELSE "None"

\* std::sort of the ranges by binding.
RECURSIVE SortByBinding(_)
SortByBinding(ranges) ==
    IF ranges = <<>> THEN <<>>
    ELSE LET m == CHOOSE i \in DOMAIN ranges :
                     \A j \in DOMAIN ranges : ranges[i].binding <= ranges[j].binding
         IN <<ranges[m]>> \o SortByBinding(SubSeq(ranges, 1, m - 1) \o SubSeq(ranges, m + 1, Len(ranges)))

\* First pass of the layout constructor: every range adds count copies of
\* the size the vector had before it, and count copies of its binding.
RECURSIVE IndexBases(_, _, _)
IndexBases(ranges, i, bases) ==
    IF i > Len(ranges) THEN bases
    ELSE IndexBases(ranges, i + 1, bases \o [k \in 1 .. ranges[i].count |-> Len(bases)])

RECURSIVE BindingIndices(_, _, _)
BindingIndices(ranges, i, indices) ==
    IF i > Len(ranges) THEN indices
    ELSE BindingIndices(ranges, i + 1, indices \o [k \in 1 .. ranges[i].count |-> ranges[i].binding])

createBinding(range) ==
    [binding |-> range.binding, descriptorCount |-> range.count, descriptorType |-> range.type]

ArgumentDescriptor(dataType, index, arrayLength) ==
    [dataType |-> dataType, index |-> index, arrayLength |-> arrayLength]

\* The padding loop: one zero-length pointer entry per binding number from
\* curBinding up to the range's binding.
Padding(curBinding, binding) ==
    [k \in 1 .. (IF curBinding < binding THEN binding - curBinding ELSE 0) |->
        ArgumentDescriptor("Pointer", curBinding + k - 1, 0)]

\* Second pass over the first rangeCount sorted ranges.
RECURSIVE SecondPass(_, _, _, _)
SecondPass(layout, sortedRanges, i, rangeCount) ==
    IF i > rangeCount THEN layout
    ELSE LET range == sortedRanges[i]
             padding == Padding(layout.curBinding, range.binding)
         IN SecondPass(
               [layout EXCEPT
                  !.bindingToIndex = [b \in DOMAIN @ |-> IF b = range.binding
                                                         THEN Len(layout.setBindings) ELSE @[b]],
                  !.setBindings = Append(@, createBinding(range)),
                  !.curBinding = (IF @ < range.binding THEN range.binding ELSE @) + 1,
                  !.argumentDescriptors =
                      @ \o padding
                        \o <<ArgumentDescriptor(mapDataType(range.type), range.binding,
                                                IF range.count > 1 THEN range.count ELSE 0)>>],
               sortedRanges, i + 1, rangeCount)

\* The boundless range: the last of the sorted ranges, with the device's
\* capabilities.maxTextureSize as array length.
BoundlessPass(layout, sortedRanges, desc) ==
    IF desc.lastRangeIsBoundless
    THEN LET lastRange == sortedRanges[Len(sortedRanges)]
         IN [layout EXCEPT
               !.bindingToIndex = [b \in DOMAIN @ |-> IF b = lastRange.binding
                                                      THEN Len(layout.setBindings) ELSE @[b]],
               !.setBindings = Append(@, createBinding(lastRange)),
               !.argumentDescriptors =
                   Append(@, ArgumentDescriptor(mapDataType(lastRange.type), lastRange.binding,
                                                maxTextureSize))]
    ELSE layout

\* A second pass that emits no padding.
MetalDescriptorSetLayout_NoPadding(desc) ==
    LET ranges == desc.descriptorRanges
        sortedRanges == SortByBinding(ranges)
        rangeCount == IF desc.lastRangeIsBoundless THEN Len(ranges) - 1 ELSE Len(ranges)
        empty == [setBindings |-> <<>>,
                  bindingToIndex |-> [b \in RangeBindings |-> -1],
                  argumentDescriptors |-> <<>>,
                  descriptorIndexBases |-> IndexBases(ranges, 1, <<>>),
                  descriptorBindingIndices |-> BindingIndices(ranges, 1, <<>>),
                  curBinding |-> 0]
        passed == SecondPass(empty, sortedRanges, 1, rangeCount)
    IN BoundlessPass([passed EXCEPT !.argumentDescriptors =
                                        SelectSeq(@, LAMBDA a : \E i \in 1 .. rangeCount :
                                                                   sortedRanges[i].binding = a.index)],
                     sortedRanges, desc)

MetalDescriptorSetLayout(desc) ==
    LET ranges == desc.descriptorRanges
        sortedRanges == SortByBinding(ranges)
        rangeCount == IF desc.lastRangeIsBoundless THEN Len(ranges) - 1 ELSE Len(ranges)
        empty == [setBindings |-> <<>>,
                  bindingToIndex |-> [b \in RangeBindings |-> -1],
                  argumentDescriptors |-> <<>>,
                  descriptorIndexBases |-> IndexBases(ranges, 1, <<>>),
                  descriptorBindingIndices |-> BindingIndices(ranges, 1, <<>>),
                  curBinding |-> 0]
    IN BoundlessPass(SecondPass(empty, sortedRanges, 1, rangeCount), sortedRanges, desc)

NoResourceEntry == [resource |-> Null, type |-> "UNKNOWN"]

\* The native objects setBuffer, setTexture and setSampler are called with.
NativeResources == {"bufA", "texA", "smpA"}

\* A descriptor set before its constructor has run.
NoDescriptorSet(desc) == [constructed |-> FALSE, desc |-> desc]

\* MetalDescriptorSet(device, desc): the layout is built and resourceEntries
\* gets one default entry per element of descriptorBindingIndices.
MetalDescriptorSet(desc) ==
    LET setLayout == MetalDescriptorSetLayout(desc)
    IN [constructed |-> TRUE,
        desc |-> desc,
        setLayout |-> setLayout,
        resourceEntries |-> [k \in 1 .. Len(setLayout.descriptorBindingIndices) |-> NoResourceEntry],
        toReleaseOnDestruction |-> <<>>,
        retains |-> [r \in NativeResources |-> 0],  \* retain() calls of the set, per object
        releases |-> [r \in NativeResources |-> 0], \* release() calls of the set, per object
        destroyed |-> FALSE,
        encoded |-> <<"none", 0, Null>>,
        lastNull |-> [k \in 1 .. Len(setLayout.descriptorBindingIndices) |-> FALSE],
        lastIndex |-> 0,
        crashed |-> FALSE,
        ops |-> 0]

getDescriptorType(s, binding) ==
    s.setLayout.setBindings[s.setLayout.bindingToIndex[binding] + 1].descriptorType

\* The descriptors setBuffer, setTexture and setSampler hand to setDescriptor.
NullDescriptor == [kind |-> "null", ptr |-> Null]
BufferDescriptor(buffer) == [kind |-> "Pointer", ptr |-> buffer]
TextureDescriptor(texture) == [kind |-> "Texture", ptr |-> texture]
SamplerDescriptor(state) == [kind |-> "Sampler", ptr |-> state]

DataTypes == {"Texture", "Pointer", "Sampler", "None"}

\* setBindings[indexBase] reads past the end of the vector when indexBase is
\* not below the number of ranges: the read then yields any data type, or
\* the process dies. A descriptor cast to a type it does not have yields its
\* pointer, or the process dies. The assert on an unsupported data type
\* ends the process in a build with asserts and is skipped without them.
DescriptorUBChoices ==
    [crash : BOOLEAN, dtype : DataTypes]

\* nativeTexture->retain() and nativeBuffer->retain(): one more retain of
\* the object, none in the sampler case, which leaves nativeResource null.
Retained(retains, nativeResource) ==
    IF nativeResource = Null THEN retains
    ELSE [retains EXCEPT ![nativeResource] = @ + 1]

\* A setDescriptor that leaves the resource entry alone when null is set.
setDescriptor_KeepsEntry(s, descriptorIndex, descriptor, ub) ==
    LET bindingIndex == s.setLayout.descriptorBindingIndices[descriptorIndex + 1]
    IN IF descriptor.kind = "null" THEN s
       ELSE [s EXCEPT !.resourceEntries[descriptorIndex + 1] =
                          [resource |-> descriptor.ptr, type |-> getDescriptorType(s, bindingIndex)]]

setDescriptor(s, descriptorIndex, descriptor, ub) ==
    LET indexBase == s.setLayout.descriptorIndexBases[descriptorIndex + 1]
        bindingIndex == s.setLayout.descriptorBindingIndices[descriptorIndex + 1]
        inBounds == indexBase < Len(s.setLayout.setBindings)
        dtype == IF inBounds
                 THEN mapDataType(s.setLayout.setBindings[indexBase + 1].descriptorType)
                 ELSE ub.dtype
        miscast == descriptor.kind # "null" /\ dtype \in {"Texture", "Pointer", "Sampler"}
                   /\ dtype # descriptor.kind
        unsupported == descriptor.kind # "null" /\ dtype = "None"
    IN IF (~inBounds \/ miscast \/ unsupported) /\ ub.crash
       THEN [s EXCEPT !.crashed = TRUE]
       ELSE
       LET descriptorType == getDescriptorType(s, bindingIndex)
           old == s.resourceEntries[descriptorIndex + 1].resource
           s1 == IF dtype # "Sampler" /\ old # Null
                 THEN [s EXCEPT !.toReleaseOnDestruction = Append(@, old)]
                 ELSE s
           nativeResource == IF descriptor.kind # "null" /\ dtype \in {"Texture", "Pointer"}
                             THEN descriptor.ptr ELSE Null
           s2 == IF descriptor.kind # "null" /\ dtype # "None"
                 THEN [s1 EXCEPT !.encoded = <<dtype, descriptorIndex - indexBase + bindingIndex,
                                               descriptor.ptr>>,
                                 !.retains = Retained(@, nativeResource)]
                 ELSE s1
       IN [s2 EXCEPT !.resourceEntries[descriptorIndex + 1] =
                         [resource |-> nativeResource, type |-> descriptorType]]

setBuffer(s, descriptorIndex, buffer, bufferFormattedView, ub) ==
    IF buffer = Null THEN setDescriptor(s, descriptorIndex, NullDescriptor, ub)
    ELSE IF bufferFormattedView # Null
    THEN setDescriptor(s, descriptorIndex, TextureDescriptor(bufferFormattedView), ub)
    ELSE setDescriptor(s, descriptorIndex, BufferDescriptor(buffer), ub)

setTexture(s, descriptorIndex, texture, ub) ==
    IF texture = Null THEN setDescriptor(s, descriptorIndex, NullDescriptor, ub)
    ELSE setDescriptor(s, descriptorIndex, TextureDescriptor(texture), ub)

setSampler(s, descriptorIndex, sampler, ub) ==
    IF sampler = Null THEN setDescriptor(s, descriptorIndex, NullDescriptor, ub)
    ELSE setDescriptor(s, descriptorIndex, SamplerDescriptor(sampler), ub)

\* The range of the description that a flat descriptor index belongs to.
RangeOfIndex(s, descriptorIndex) ==
    LET ranges == s.desc.descriptorRanges
    IN ranges[CHOOSE i \in DOMAIN ranges :
                 Len(IndexBases(SubSeq(ranges, 1, i - 1), 1, <<>>))
                   = s.setLayout.descriptorIndexBases[descriptorIndex + 1]]

CanSetDescriptor ==
    /\ dset.constructed
    /\ ~dset.destroyed
    /\ ~dset.crashed
    /\ dset.ops < limit

\* One call on the descriptor set: the result of the call, the null flag of
\* the index and the count of calls.
DescriptorCall(s, descriptorIndex, isNull) ==
    /\ dset' = IF s.crashed THEN s
               ELSE [s EXCEPT !.lastNull[descriptorIndex + 1] = isNull,
                              !.lastIndex = descriptorIndex, !.ops = @ + 1]
    /\ UNCHANGED <<cl, lastOp, opCount, limit, sc, scOps, q, dev, conv>>

CreateDescriptorSet ==
    /\ ~dset.constructed
    /\ dset' = MetalDescriptorSet(dset.desc)
    /\ UNCHANGED <<cl, lastOp, opCount, limit, sc, scOps, q, dev, conv>>

\* ~MetalDescriptorSet: one release for every element of
\* toReleaseOnDestruction and one for every entry that holds a resource.
ReleasedOnDestruction(s, r) ==
    Cardinality({k \in DOMAIN s.toReleaseOnDestruction : s.toReleaseOnDestruction[k] = r})
      + Cardinality({k \in DOMAIN s.resourceEntries : s.resourceEntries[k].resource = r})

DestroyMetalDescriptorSet(s) ==
    [s EXCEPT !.releases = [r \in NativeResources |-> @[r] + ReleasedOnDestruction(s, r)],
              !.destroyed = TRUE]

DestroyDescriptorSet ==
    /\ dset.constructed /\ ~dset.destroyed /\ ~dset.crashed
    /\ dset' = DestroyMetalDescriptorSet(dset)
    /\ UNCHANGED <<cl, lastOp, opCount, limit, sc, scOps, q, dev, conv>>

\* Non-null resources are of the kind of the range the index belongs to;
\* null may be passed through any of the three calls.
SetBuffer ==
    /\ CanSetDescriptor
    /\ \E descriptorIndex \in 0 .. (Len(dset.resourceEntries) - 1), buffer \in {Null, "bufA"},
          ub \in DescriptorUBChoices :
          /\ buffer # Null => mapDataType(RangeOfIndex(dset, descriptorIndex).type) = "Pointer"
          /\ DescriptorCall(setBuffer(dset, descriptorIndex, buffer, Null, ub), descriptorIndex,
                            buffer = Null)

SetTexture ==
    /\ CanSetDescriptor
    /\ \E descriptorIndex \in 0 .. (Len(dset.resourceEntries) - 1), texture \in {Null, "texA"},
          ub \in DescriptorUBChoices :
          /\ texture # Null => mapDataType(RangeOfIndex(dset, descriptorIndex).type) = "Texture"
          /\ DescriptorCall(setTexture(dset, descriptorIndex, texture, ub), descriptorIndex,
                            texture = Null)

SetSampler ==
    /\ CanSetDescriptor
    /\ \E descriptorIndex \in 0 .. (Len(dset.resourceEntries) - 1), sampler \in {Null, "smpA"},
          ub \in DescriptorUBChoices :
          /\ sampler # Null => mapDataType(RangeOfIndex(dset, descriptorIndex).type) = "Sampler"
          /\ DescriptorCall(setSampler(dset, descriptorIndex, sampler, ub), descriptorIndex,
                            sampler = Null)

\* ------------------------------------------------------------------------
\* Format conversion: mapRenderFormat and mapPixelFormat. A value outside
\* the case labels takes the default branch, whose assert ends a build that
\* has asserts and which otherwise returns the invalid format.
\* ------------------------------------------------------------------------

\* The case labels of mapPixelFormat.
RenderFormats ==
    {"UNKNOWN", "R32G32B32A32_TYPELESS", "R32G32B32A32_FLOAT", "R32G32B32A32_UINT",
     "R32G32B32A32_SINT", "R32G32B32_TYPELESS", "R32G32B32_FLOAT", "R32G32B32_UINT",
     "R32G32B32_SINT", "R16G16B16A16_TYPELESS", "R16G16B16A16_FLOAT", "R16G16B16A16_UNORM",
     "R16G16B16A16_UINT", "R16G16B16A16_SNORM", "R16G16B16A16_SINT", "R32G32_TYPELESS",
     "R32G32_FLOAT", "R32G32_UINT", "R32G32_SINT", "R8G8B8A8_TYPELESS", "R8G8B8A8_UNORM",
     "R8G8B8A8_UINT", "R8G8B8A8_SNORM", "R8G8B8A8_SINT", "B8G8R8A8_UNORM",
     "R16G16_TYPELESS", "R16G16_FLOAT", "R16G16_UNORM", "R16G16_UINT", "R16G16_SNORM",
     "R16G16_SINT", "R32_TYPELESS", "D32_FLOAT", "D32_FLOAT_S8_UINT", "R32_FLOAT",
     "R32_UINT", "R32_SINT", "R8G8_TYPELESS", "R8G8_UNORM", "R8G8_UINT", "R8G8_SNORM",
     "R8G8_SINT", "R16_TYPELESS", "R16_FLOAT", "D16_UNORM", "R16_UNORM", "R16_UINT",
     "R16_SNORM", "R16_SINT", "R8_TYPELESS", "R8_UNORM", "R8_UINT", "R8_SNORM", "R8_SINT",
     "BC1_TYPELESS", "BC1_UNORM", "BC1_UNORM_SRGB", "BC2_TYPELESS", "BC2_UNORM",
     "BC2_UNORM_SRGB", "BC3_TYPELESS", "BC3_UNORM", "BC3_UNORM_SRGB", "BC4_TYPELESS",
     "BC4_UNORM", "BC4_SNORM", "BC5_TYPELESS", "BC5_UNORM", "BC5_SNORM", "BC6H_TYPELESS",
     "BC6H_UF16", "BC6H_SF16", "BC7_TYPELESS", "BC7_UNORM", "BC7_UNORM_SRGB"}

\* The case labels of mapPixelFormat that are TYPELESS formats.
TypelessFormats ==
    {"R32G32B32A32_TYPELESS", "R32G32B32_TYPELESS", "R16G16B16A16_TYPELESS",
     "R32G32_TYPELESS", "R8G8B8A8_TYPELESS", "R16G16_TYPELESS", "R32_TYPELESS",
     "R8G8_TYPELESS", "R16_TYPELESS", "R8_TYPELESS", "BC1_TYPELESS", "BC2_TYPELESS",
     "BC3_TYPELESS", "BC4_TYPELESS", "BC5_TYPELESS", "BC6H_TYPELESS", "BC7_TYPELESS"}

\* The case labels of mapRenderFormat.
PixelFormats ==
    {"Invalid", "RGBA32Float", "RGBA32Uint", "RGBA32Sint", "RGBA16Float", "RGBA16Unorm",
     "RGBA16Uint", "RGBA16Snorm", "RGBA16Sint", "RG32Float", "RG32Uint", "RG32Sint",
     "RGBA8Unorm", "RGBA8Uint", "RGBA8Snorm", "RGBA8Sint", "BGRA8Unorm", "RG16Float",
     "RG16Unorm", "RG16Uint", "RG16Snorm", "RG16Sint", "Depth32Float",
     "Depth32Float_Stencil8", "R32Float", "R32Uint", "R32Sint", "RG8Unorm", "RG8Uint",
     "RG8Snorm", "RG8Sint", "R16Float", "Depth16Unorm", "R16Unorm", "R16Uint", "R16Snorm",
     "R16Sint", "R8Unorm", "R8Uint", "R8Snorm", "R8Sint", "BC1_RGBA", "BC1_RGBA_sRGB",
     "BC2_RGBA", "BC2_RGBA_sRGB", "BC3_RGBA", "BC3_RGBA_sRGB", "BC4_RUnorm", "BC4_RSnorm",
     "BC5_RGUnorm", "BC5_RGSnorm", "BC6H_RGBFloat", "BC6H_RGBUfloat", "BC7_RGBAUnorm",
     "BC7_RGBAUnorm_sRGB"}

mapRenderFormat(format) ==
    CASE format = "Invalid" -> "UNKNOWN"
      [] format = "RGBA32Float" -> "R32G32B32A32_FLOAT"
      [] format = "RGBA32Uint" -> "R32G32B32A32_UINT"
      [] format = "RGBA32Sint" -> "R32G32B32A32_SINT"
      [] format = "RGBA16Float" -> "R16G16B16A16_FLOAT"
      [] format = "RGBA16Unorm" -> "R16G16B16A16_UNORM"
      [] format = "RGBA16Uint" -> "R16G16B16A16_UINT"
      [] format = "RGBA16Snorm" -> "R16G16B16A16_SNORM"
      [] format = "RGBA16Sint" -> "R16G16B16A16_SINT"
      [] format = "RG32Float" -> "R32G32_FLOAT"
      [] format = "RG32Uint" -> "R32G32_UINT"
      [] format = "RG32Sint" -> "R32G32_SINT"
      [] format = "RGBA8Unorm" -> "R8G8B8A8_UNORM"
      [] format = "RGBA8Uint" -> "R8G8B8A8_UINT"
      [] format = "RGBA8Snorm" -> "R8G8B8A8_SNORM"
      [] format = "RGBA8Sint" -> "R8G8B8A8_SINT"
      [] format = "BGRA8Unorm" -> "B8G8R8A8_UNORM"
      [] format = "RG16Float" -> "R16G16_FLOAT"
      [] format = "RG16Unorm" -> "R16G16_UNORM"
      [] format = "RG16Uint" -> "R16G16_UINT"
      [] format = "RG16Snorm" -> "R16G16_SNORM"
      [] format = "RG16Sint" -> "R16G16_SINT"
      [] format = "Depth32Float" -> "D32_FLOAT"
      [] format = "Depth32Float_Stencil8" -> "D32_FLOAT_S8_UINT"
      [] format = "R32Float" -> "R32_FLOAT"
      [] format = "R32Uint" -> "R32_UINT"
      [] format = "R32Sint" -> "R32_SINT"
      [] format = "RG8Unorm" -> "R8G8_UNORM"
      [] format = "RG8Uint" -> "R8G8_UINT"
      [] format = "RG8Snorm" -> "R8G8_SNORM"
      [] format = "RG8Sint" -> "R8G8_SINT"
      [] format = "R16Float" -> "R16_FLOAT"
      [] format = "Depth16Unorm" -> "D16_UNORM"
      [] format = "R16Unorm" -> "R16_UNORM"
      [] format = "R16Uint" -> "R16_UINT"
      [] format = "R16Snorm" -> "R16_SNORM"
      [] format = "R16Sint" -> "R16_SINT"
      [] format = "R8Unorm" -> "R8_UNORM"
      [] format = "R8Uint" -> "R8_UINT"
      [] format = "R8Snorm" -> "R8_SNORM"
      [] format = "R8Sint" -> "R8_SINT"
      [] format = "BC1_RGBA" -> "BC1_UNORM"
      [] format = "BC1_RGBA_sRGB" -> "BC1_UNORM_SRGB"
      [] format = "BC2_RGBA" -> "BC2_UNORM"
      [] format = "BC2_RGBA_sRGB" -> "BC2_UNORM_SRGB"
      [] format = "BC3_RGBA" -> "BC3_UNORM"
      [] format = "BC3_RGBA_sRGB" -> "BC3_UNORM_SRGB"
      [] format = "BC4_RUnorm" -> "BC4_UNORM"
      [] format = "BC4_RSnorm" -> "BC4_SNORM"
      [] format = "BC5_RGUnorm" -> "BC5_UNORM"
      [] format = "BC5_RGSnorm" -> "BC5_SNORM"
      [] format = "BC6H_RGBFloat" -> "BC6H_SF16"
      [] format = "BC6H_RGBUfloat" -> "BC6H_UF16"
      [] format = "BC7_RGBAUnorm" -> "BC7_UNORM"
      [] format = "BC7_RGBAUnorm_sRGB" -> "BC7_UNORM_SRGB"
      [] OTHER -> "UNKNOWN"

mapPixelFormat(format) ==
    CASE format = "UNKNOWN" -> "Invalid"
      [] format = "R32G32B32A32_TYPELESS" -> "RGBA32Float"
      [] format = "R32G32B32A32_FLOAT" -> "RGBA32Float"
      [] format = "R32G32B32A32_UINT" -> "RGBA32Uint"
      [] format = "R32G32B32A32_SINT" -> "RGBA32Sint"
      [] format = "R32G32B32_TYPELESS" -> "RGBA32Float"
      [] format = "R32G32B32_FLOAT" -> "RGBA32Float"
      [] format = "R32G32B32_UINT" -> "RGBA32Uint"
      [] format = "R32G32B32_SINT" -> "RGBA32Sint"
      [] format = "R16G16B16A16_TYPELESS" -> "RGBA16Float"
      [] format = "R16G16B16A16_FLOAT" -> "RGBA16Float"
      [] format = "R16G16B16A16_UNORM" -> "RGBA16Unorm"
      [] format = "R16G16B16A16_UINT" -> "RGBA16Uint"
      [] format = "R16G16B16A16_SNORM" -> "RGBA16Snorm"
      [] format = "R16G16B16A16_SINT" -> "RGBA16Sint"
      [] format = "R32G32_TYPELESS" -> "RG32Float"
      [] format = "R32G32_FLOAT" -> "RG32Float"
      [] format = "R32G32_UINT" -> "RG32Uint"
      [] format = "R32G32_SINT" -> "RG32Sint"
      [] format = "R8G8B8A8_TYPELESS" -> "RGBA8Unorm"
      [] format = "R8G8B8A8_UNORM" -> "RGBA8Unorm"
      [] format = "R8G8B8A8_UINT" -> "RGBA8Uint"
      [] format = "R8G8B8A8_SNORM" -> "RGBA8Snorm"
      [] format = "R8G8B8A8_SINT" -> "RGBA8Sint"
      [] format = "B8G8R8A8_UNORM" -> "BGRA8Unorm"
      [] format = "R16G16_TYPELESS" -> "RG16Float"
      [] format = "R16G16_FLOAT" -> "RG16Float"
      [] format = "R16G16_UNORM" -> "RG16Unorm"
      [] format = "R16G16_UINT" -> "RG16Uint"
      [] format = "R16G16_SNORM" -> "RG16Snorm"
      [] format = "R16G16_SINT" -> "RG16Sint"
      [] format = "R32_TYPELESS" -> "R32Float"
      [] format = "D32_FLOAT" -> "Depth32Float"
      [] format = "D32_FLOAT_S8_UINT" -> "Depth32Float_Stencil8"
      [] format = "R32_FLOAT" -> "R32Float"
      [] format = "R32_UINT" -> "R32Uint"
      [] format = "R32_SINT" -> "R32Sint"
      [] format = "R8G8_TYPELESS" -> "RG8Unorm"
      [] format = "R8G8_UNORM" -> "RG8Unorm"
      [] format = "R8G8_UINT" -> "RG8Uint"
      [] format = "R8G8_SNORM" -> "RG8Snorm"
      [] format = "R8G8_SINT" -> "RG8Sint"
      [] format = "R16_TYPELESS" -> "R16Float"
      [] format = "R16_FLOAT" -> "R16Float"
      [] format = "D16_UNORM" -> "Depth16Unorm"
      [] format = "R16_UNORM" -> "R16Unorm"
      [] format = "R16_UINT" -> "R16Uint"
      [] format = "R16_SNORM" -> "R16Snorm"
      [] format = "R16_SINT" -> "R16Sint"
      [] format = "R8_TYPELESS" -> "R8Unorm"
      [] format = "R8_UNORM" -> "R8Unorm"
      [] format = "R8_UINT" -> "R8Uint"
      [] format = "R8_SNORM" -> "R8Snorm"
      [] format = "R8_SINT" -> "R8Sint"
      [] format = "BC1_TYPELESS" -> "BC1_RGBA"
      [] format = "BC1_UNORM" -> "BC1_RGBA"
      [] format = "BC1_UNORM_SRGB" -> "BC1_RGBA_sRGB"
      [] format = "BC2_TYPELESS" -> "BC2_RGBA"
      [] format = "BC2_UNORM" -> "BC2_RGBA"
      [] format = "BC2_UNORM_SRGB" -> "BC2_RGBA_sRGB"
      [] format = "BC3_TYPELESS" -> "BC3_RGBA"
      [] format = "BC3_UNORM" -> "BC3_RGBA"
      [] format = "BC3_UNORM_SRGB" -> "BC3_RGBA_sRGB"
      [] format = "BC4_TYPELESS" -> "BC4_RUnorm"
      [] format = "BC4_UNORM" -> "BC4_RUnorm"
      [] format = "BC4_SNORM" -> "BC4_RSnorm"
      [] format = "BC5_TYPELESS" -> "BC5_RGUnorm"
      [] format = "BC5_UNORM" -> "BC5_RGUnorm"
      [] format = "BC5_SNORM" -> "BC5_RGSnorm"
      [] format = "BC6H_TYPELESS" -> "BC6H_RGBFloat"
      [] format = "BC6H_UF16" -> "BC6H_RGBUfloat"
      [] format = "BC6H_SF16" -> "BC6H_RGBFloat"
      [] format = "BC7_TYPELESS" -> "BC7_RGBAUnorm"
      [] format = "BC7_UNORM" -> "BC7_RGBAUnorm"
      [] format = "BC7_UNORM_SRGB" -> "BC7_RGBAUnorm_sRGB"
      [] OTHER -> "Invalid"

\* A conversion in progress: the format given, and what each step returned.
NewConversion(format) ==
    [format |-> format, pixelFormat |-> "none", renderFormat |-> "none", stage |-> "given"]

\* native = mapPixelFormat(format)
MapPixelFormat ==
    /\ conv.stage = "given"
    /\ conv' = [conv EXCEPT !.pixelFormat = mapPixelFormat(conv.format), !.stage = "native"]
    /\ UNCHANGED <<cl, lastOp, opCount, limit, sc, scOps, q, dset, dev>>

\* back = mapRenderFormat(native)
MapRenderFormat ==
    /\ conv.stage = "native"
    /\ conv' = [conv EXCEPT !.renderFormat = mapRenderFormat(conv.pixelFormat), !.stage = "back"]
    /\ UNCHANGED <<cl, lastOp, opCount, limit, sc, scOps, q, dset, dev>>

\* ------------------------------------------------------------------------
\* MetalDevice: the cache of clear pipelines and the threads that call
\* getOrCreateClearRenderPipelineState. A pipeline state object is a
\* positive number, nullptr is 0. One action is one step of the function
\* body; the lock_guard is taken in LockClearPipelineState and released when
\* the function returns.
\* ------------------------------------------------------------------------
MaxDeviceCalls == 2

Threads == {"t1", "t2"}

\* The color attachments of a pipeline descriptor: the pixel format at each
\* index, Invalid where none was set.
ColorAttachments(index, format) ==
    [i \in 0 .. 7 |-> IF i = index THEN format ELSE "Invalid"]

\* What clearColor and clearDepthStencil pass: the pipeline descriptor (sample
\* count, pixel formats of the color attachments, depth pixel format) and the
\* two write flags.
ClearPipelineCalls ==
    {[sampleCount |-> 1, colorAttachments |-> ColorAttachments(0, "BGRA8Unorm"),
      depthFormat |-> "Invalid",
      depthWriteEnabled |-> FALSE, stencilWriteEnabled |-> FALSE],
     [sampleCount |-> 1, colorAttachments |-> ColorAttachments(0, "BGRA8Unorm"),
      depthFormat |-> "Depth32Float",
      depthWriteEnabled |-> TRUE, stencilWriteEnabled |-> FALSE]}

\* The fields of ClearPipelineKey, which fill the low 62 bits of key.value;
\* msaaCount has 4 bits, a format has 7 and every RenderFormat fits in them.
createClearPipelineKey(pipelineDesc, depthWriteEnabled, stencilWriteEnabled) ==
    [depthClear |-> IF depthWriteEnabled THEN 1 ELSE 0,
     stencilClear |-> IF stencilWriteEnabled THEN 1 ELSE 0,
     msaaCount |-> pipelineDesc.sampleCount % 16,
     colorFormat0 |-> mapRenderFormat(pipelineDesc.colorAttachments[0]),
     colorFormat1 |-> mapRenderFormat(pipelineDesc.colorAttachments[1]),
     colorFormat2 |-> mapRenderFormat(pipelineDesc.colorAttachments[2]),
     colorFormat3 |-> mapRenderFormat(pipelineDesc.colorAttachments[3]),
     colorFormat4 |-> mapRenderFormat(pipelineDesc.colorAttachments[4]),
     colorFormat5 |-> mapRenderFormat(pipelineDesc.colorAttachments[5]),
     colorFormat6 |-> mapRenderFormat(pipelineDesc.colorAttachments[6]),
     depthFormat |-> mapRenderFormat(pipelineDesc.depthFormat)]

\* The clear pipeline descriptors of framebuffers with up to eight color
\* attachments: clearColor sets the format of the attachment it clears, and
\* the depth format if the framebuffer has a depth attachment.
ClearPipelineDescs ==
    {[sampleCount |-> n, colorAttachments |-> ColorAttachments(i, f),
      depthFormat |-> d, depthWriteEnabled |-> dw, stencilWriteEnabled |-> sw] :
        n \in {1, 4}, i \in {0, 6, 7}, f \in {"BGRA8Unorm", "RGBA16Float"},
        d \in {"Invalid", "Depth32Float"}, dw \in BOOLEAN, sw \in {FALSE}}

\* Two descriptors whose keys are computed one after the other.
NewKeyPair(first, second) == [descs |-> <<first, second>>, keys |-> <<>>]

CreateClearPipelineKey ==
    /\ Len(dev.keys) < Len(dev.descs)
    /\ \E c \in {dev.descs[Len(dev.keys) + 1]} :
          dev' = [dev EXCEPT !.keys = Append(@, createClearPipelineKey(c, c.depthWriteEnabled,
                                                                     c.stencilWriteEnabled))]
    /\ UNCHANGED <<cl, lastOp, opCount, limit, sc, scOps, q, dset, conv>>

IdleThread == [pc |-> "idle", pipelineKey |-> Null, result |-> 0, calls |-> 0]

\* clearRenderPipelineStates holds (key, pipeline) pairs; created lists the
\* (key, pipeline) pairs newRenderPipelineState has returned and returned the
\* (thread, key, pipeline) triples the function has returned.
NewDevice ==
    [clearRenderPipelineStates |-> {},
     clearPipelineStateMutex |-> Null,
     threads |-> [t \in Threads |-> IdleThread],
     created |-> <<>>,
     returned |-> {}]

\* clearRenderPipelineStates.find(pipelineKey)
FindClearPipeline(d, pipelineKey) ==
    {e \in d.clearRenderPipelineStates : e[1] = pipelineKey}

\* std::mutex: the lock can be taken when no thread holds it.
MutexAvailable_NoMutex(d) == TRUE

MutexAvailable(d) == d.clearPipelineStateMutex = Null

\* A thread enters the function and computes the key.
CallGetOrCreateClearRenderPipelineState ==
    \E t \in Threads, c \in ClearPipelineCalls :
        /\ dev.threads[t].pc = "idle"
        /\ dev.threads[t].calls < limit
        /\ dev' = [dev EXCEPT !.threads[t].pc = "lock",
                              !.threads[t].pipelineKey =
                                  createClearPipelineKey(c, c.depthWriteEnabled,
                                                         c.stencilWriteEnabled),
                              !.threads[t].result = 0]
        /\ UNCHANGED <<cl, lastOp, opCount, limit, sc, scOps, q, dset, conv>>

\* std::lock_guard lock(clearPipelineStateMutex)
LockClearPipelineState ==
    \E t \in Threads :
        /\ dev.threads[t].pc = "lock"
        /\ MutexAvailable(dev)
        /\ dev' = [dev EXCEPT !.clearPipelineStateMutex = t, !.threads[t].pc = "find"]
        /\ UNCHANGED <<cl, lastOp, opCount, limit, sc, scOps, q, dset, conv>>

\* find: a hit is the result, a miss goes on to the compilation.
FindClearPipelineState ==
    \E t \in Threads :
        /\ dev.threads[t].pc = "find"
        /\ dev' = IF FindClearPipeline(dev, dev.threads[t].pipelineKey) # {}
                  THEN [dev EXCEPT !.threads[t].pc = "return",
                                   !.threads[t].result =
                                       (CHOOSE e \in FindClearPipeline(dev, dev.threads[t].pipelineKey) : TRUE)[2]]
                  ELSE [dev EXCEPT !.threads[t].pc = "compile"]
        /\ UNCHANGED <<cl, lastOp, opCount, limit, sc, scOps, q, dset, conv>>

\* mtl->newRenderPipelineState(pipelineDesc, &error): a new object, or an
\* error, after which the function returns nullptr and stores nothing.
NewRenderPipelineState ==
    \E t \in Threads, failed \in BOOLEAN :
        /\ dev.threads[t].pc = "compile"
        /\ dev' = IF failed
                  THEN [dev EXCEPT !.threads[t].pc = "return", !.threads[t].result = 0]
                  ELSE [dev EXCEPT !.threads[t].pc = "insert",
                                   !.threads[t].result = Len(dev.created) + 1,
                                   !.created = Append(@, <<dev.threads[t].pipelineKey,
                                                           Len(dev.created) + 1>>)]
        /\ UNCHANGED <<cl, lastOp, opCount, limit, sc, scOps, q, dset, conv>>

\* clearRenderPipelineStates.insert(...): stores the pair unless the key is
\* present; inserted_it->second is what the map then holds for the key.
InsertClearPipelineState ==
    \E t \in Threads :
        /\ dev.threads[t].pc = "insert"
        /\ dev' = IF FindClearPipeline(dev, dev.threads[t].pipelineKey) # {}
                  THEN [dev EXCEPT !.threads[t].pc = "return",
                                   !.threads[t].result =
                                       (CHOOSE e \in FindClearPipeline(dev, dev.threads[t].pipelineKey) : TRUE)[2]]
                  ELSE [dev EXCEPT !.threads[t].pc = "return",
                                   !.clearRenderPipelineStates =
                                       @ \cup {<<dev.threads[t].pipelineKey, dev.threads[t].result>>}]
        /\ UNCHANGED <<cl, lastOp, opCount, limit, sc, scOps, q, dset, conv>>

\* return: the lock_guard goes out of scope.
ReturnClearPipelineState ==
    \E t \in Threads :
        /\ dev.threads[t].pc = "return"
        /\ dev' = [dev EXCEPT !.clearPipelineStateMutex = Null,
                              !.threads[t].pc = "idle",
                              !.threads[t].calls = @ + 1,
                              !.returned = @ \cup {<<t, dev.threads[t].pipelineKey,
                                                     dev.threads[t].result>>}]
        /\ UNCHANGED <<cl, lastOp, opCount, limit, sc, scOps, q, dset, conv>>

\* ------------------------------------------------------------------------
\* MetalCommandQueue, MetalCommandSemaphore, MetalCommandFence.
\*
\* A native command buffer committed to the queue is a record
\* [label, waits, signals, handler]: the event waits and event signals
\* encoded on it, as <<semaphore, value>> pairs, and the fence its completed
\* handler signals (Null if it has none). q.queue holds the committed
\* buffers the device has not executed yet, in commit order; q.handlers the
\* completed handlers that have not run yet. q.log holds the native calls
\* of the last executeCommandLists call, in the order they were issued.
\* ------------------------------------------------------------------------
MaxQueueOps == 3

CommandLists == {"listA", "listB"}
Semaphores == {"semA", "semB"}
Fences == {"fenceA"}

WaitBuffer == "Wait Command Buffer"

\* The arrays of command lists and of semaphores a submission is given.
CommandListArrays == {<<"listA">>, <<"listB">>, <<"listA", "listB">>, <<"listB", "listA">>}
SemaphoreArrays == {<<>>, <<"semA">>, <<"semB", "semA">>}

\* What the calls so far encoded on a semaphore, in the order of the encode
\* calls: the kind of the last event, the values of the last signal and of
\* the last wait, whether signals and waits have alternated, signal first,
\* and whether every wait was encoded with the value of the last signal.
NewSemaphoreUse ==
    [last |-> "none", signal |-> 0, wait |-> 0, alternates |-> TRUE, matched |-> TRUE]

NewCommandQueue ==
    [ listMtl       |-> [l \in CommandLists |-> "buffer"],
      mtlEventValue |-> [s \in Semaphores |-> 1],
      eventValue    |-> [s \in Semaphores |-> 0],
      semaphore     |-> [f \in Fences |-> 0],
      queue         |-> <<>>,
      handlers      |-> <<>>,
      log           |-> <<>>,
      lastCall      |-> "none",
      commandLists  |-> <<>>,
      waitSemaphores |-> <<>>,
      signalSemaphores |-> <<>>,
      signalFence   |-> Null,
      pc            |-> "idle",
      waitFence     |-> Null,
      submitted     |-> [f \in Fences |-> 0],
      signalled     |-> [f \in Fences |-> 0],
      returned      |-> [f \in Fences |-> 0],
      ops           |-> 0,
      sync          |-> [s \in Semaphores |-> NewSemaphoreUse],
      committed     |-> 0,
      orderly       |-> 0,
      cycle         |-> [l \in CommandLists |-> "begun"] ]

NativeCall(call, buffer, arg, value) ==
    [call |-> call, buffer |-> buffer, arg |-> arg, value |-> value]

\* Number of times semaphore s occurs among the first n entries of sems.
Occurrences(sems, n, s) == Cardinality({i \in 1 .. n : sems[i] = s})

\* The value the i-th wait is encoded with: mtlEventValue++ has run once for
\* every earlier entry of the array that names the same semaphore.
WaitValue(s, sems, i) == s.mtlEventValue[sems[i]] + Occurrences(sems, i - 1, sems[i])

\* Variant of commit that keeps the list's pointer to the committed buffer.
commitList_KeepsBuffer(s, l, signals, handler) ==
    [s EXCEPT !.queue = Append(@, [label |-> l, waits |-> <<>>, signals |-> signals, handler |-> handler]),
              !.log = Append(@, NativeCall("commit", l, Null, 0))]

\* MetalCommandList::commit on a list of the queue: the native buffer is
\* committed and the list's pointer to it is cleared.
commitList(s, l, signals, handler) ==
    [s EXCEPT !.queue = Append(@, [label |-> l, waits |-> <<>>, signals |-> signals, handler |-> handler]),
              !.listMtl[l] = Null,
              !.log = Append(@, NativeCall("commit", l, Null, 0))]

\* A submission that commits its last command list only.
commitAllButLast_CommitsNone(s, commandLists, i) == s

\* The loop over the command lists before the last one: each is enqueued and
\* committed.
RECURSIVE commitAllButLast(_, _, _)
commitAllButLast(s, commandLists, i) ==
    IF i > Len(commandLists) - 1 THEN s
    ELSE commitAllButLast(
            commitList([s EXCEPT !.log = Append(@, NativeCall("enqueue", commandLists[i], Null, 0))],
                       commandLists[i], <<>>, Null),
            commandLists, i + 1)

executeCommandLists(s, commandLists, waitSemaphores, signalSemaphores, signalFence) ==
    LET waits == [i \in 1 .. Len(waitSemaphores) |-> <<waitSemaphores[i], WaitValue(s, waitSemaphores, i)>>]
        s1 == [s EXCEPT
                 !.mtlEventValue = [x \in Semaphores |-> @[x] + Occurrences(waitSemaphores, Len(waitSemaphores), x)],
                 !.queue = Append(@, [label |-> WaitBuffer, waits |-> waits, signals |-> <<>>, handler |-> Null]),
                 !.log = <<NativeCall("enqueue", WaitBuffer, Null, 0)>>
                         \o [i \in 1 .. Len(waits) |-> NativeCall("encodeWait", WaitBuffer, waits[i][1], waits[i][2])]
                         \o <<NativeCall("commit", WaitBuffer, Null, 0)>>]
        s2 == commitAllButLast(s1, commandLists, 1)
        last == commandLists[Len(commandLists)]
        signals == [i \in 1 .. Len(signalSemaphores) |->
                       <<signalSemaphores[i], s2.mtlEventValue[signalSemaphores[i]]>>]
        s3 == [s2 EXCEPT
                 !.log = @ \o <<NativeCall("enqueue", last, Null, 0)>>
                           \o (IF signalFence # Null
                               THEN <<NativeCall("addCompletedHandler", last, signalFence, 0)>> ELSE <<>>)
                           \o [i \in 1 .. Len(signals) |->
                                 NativeCall("encodeSignalEvent", last, signals[i][1], signals[i][2])]]
    IN commitList(s3, last, signals, signalFence)

\* One encodeSignalEvent or encodeWait on a semaphore whose use so far is u.
ObserveEvent(u, kind, value) ==
    [last       |-> kind,
     signal     |-> IF kind = "signal" THEN value ELSE u.signal,
     wait       |-> IF kind = "wait" THEN value ELSE u.wait,
     alternates |-> u.alternates /\ (IF kind = "signal" THEN u.last # "signal" ELSE u.last = "signal"),
     matched    |-> u.matched /\ (kind = "wait" => value = u.signal)]

\* The events encoded on a command buffer, and on the buffers of a queue
\* from the i-th on, in the order of the encode calls.
BufferEvents(b) ==
    [i \in 1 .. Len(b.waits) |-> <<"wait", b.waits[i][1], b.waits[i][2]>>]
    \o [i \in 1 .. Len(b.signals) |-> <<"signal", b.signals[i][1], b.signals[i][2]>>]

RECURSIVE QueueEvents(_, _)
QueueEvents(queue, i) ==
    IF i > Len(queue) THEN <<>> ELSE BufferEvents(queue[i]) \o QueueEvents(queue, i + 1)

RECURSIVE ObserveEvents(_, _, _)
ObserveEvents(sync, events, i) ==
    IF i > Len(events) THEN sync
    ELSE ObserveEvents([sync EXCEPT ![events[i][2]] = ObserveEvent(@, events[i][1], events[i][3])],
                       events, i + 1)

AllAlternate(sync) == \A x \in Semaphores : sync[x].alternates

\* The use of the semaphores after a call that left the queue as in s, and
\* the number of buffers committed up to the last call after which the
\* signals and waits of every semaphore alternated.
ObserveCall(s, sync) ==
    [s EXCEPT !.sync = sync,
              !.committed = @ + Len(s.queue) - Len(q.queue),
              !.orderly = IF AllAlternate(sync) THEN q.committed + Len(s.queue) - Len(q.queue) ELSE @]

\* Where each command list stands in its cycle, from the calls made: "new"
\* before its first begin(), "begun" after begin(), "submitted" once it was
\* handed to executeCommandLists.
CycleAfter(cycle, name, commandLists) ==
    IF name = "executeCommandLists"
    THEN [l \in CommandLists |->
             IF \E i \in DOMAIN commandLists : commandLists[i] = l THEN "submitted"
             ELSE cycle[l]]
    ELSE cycle

\* An application call on the queue: the call is recorded with its
\* arguments.
QueueAfter(name, s) ==
    [ObserveCall(s, ObserveEvents(q.sync, QueueEvents(s.queue, Len(q.queue) + 1), 1))
       EXCEPT !.lastCall = name, !.ops = q.ops + 1,
              !.cycle = CycleAfter(@, name, s.commandLists)]

QueueCall(name, s) ==
    /\ q' = QueueAfter(name, s)
    /\ UNCHANGED <<cl, lastOp, opCount, limit, sc, scOps, dset, dev, conv>>

QueueIdle == q.pc = "idle" /\ q.ops < limit

\* A submission is given recorded command lists, each of them once.
Recorded(commandLists) ==
    /\ \A i \in DOMAIN commandLists : q.listMtl[commandLists[i]] # Null
    /\ \A i, j \in DOMAIN commandLists : commandLists[i] = commandLists[j] => i = j

ExecuteCommandLists ==
    /\ QueueIdle
    /\ \E commandLists \in CommandListArrays, waitSemaphores \in SemaphoreArrays,
          signalSemaphores \in SemaphoreArrays, signalFence \in Fences \cup {Null} :
          /\ Recorded(commandLists)
          /\ QueueCall("executeCommandLists",
                [executeCommandLists(q, commandLists, waitSemaphores, signalSemaphores, signalFence)
                   EXCEPT !.commandLists = commandLists,
                          !.waitSemaphores = waitSemaphores,
                          !.signalSemaphores = signalSemaphores,
                          !.signalFence = signalFence,
                          !.submitted = [f \in Fences |-> IF f = signalFence THEN @[f] + 1 ELSE @[f]]])

\* MetalCommandList::begin on a list whose buffer was committed: the list
\* takes a new native command buffer.
AssertionFailed == "assert(mtl == nullptr)"

\* MetalCommandList::begin on list l of the queue: the assert ends the
\* process if the list holds a command buffer.
beginCommandList(s, l) ==
    IF s.listMtl[l] # Null THEN [s EXCEPT !.pc = AssertionFailed]
    ELSE [s EXCEPT !.listMtl[l] = "buffer", !.cycle[l] = "begun"]

BeginCommandList ==
    /\ QueueIdle
    /\ \E l \in CommandLists :
          /\ q.listMtl[l] = Null
          /\ QueueCall("begin", beginCommandList(q, l))

\* begin() called on any command list, whatever it holds.
BeginAnyCommandList ==
    /\ QueueIdle
    /\ \E l \in CommandLists :
          /\ q' = QueueAfter("begin", beginCommandList(q, l))
          /\ lastOp' = [name |-> "begin", args |-> <<l>>]
          /\ UNCHANGED <<cl, opCount, limit, sc, scOps, dset, dev, conv>>

AcquireBuffer == "Acquire Drawable Command Buffer"
PresentBuffer == "Present Command Buffer"

\* The arrays of semaphores a present is given.
PresentSemaphoreArrays == {<<"semA">>, <<"semB">>}

\* Variant of the acquire command buffer that signals the value after the
\* semaphore's current one.
acquireBuffer_SignalsNext(s, signalSemaphore) ==
    [s EXCEPT
       !.queue = Append(@, [label |-> AcquireBuffer, waits |-> <<>>,
                            signals |-> << <<signalSemaphore, s.mtlEventValue[signalSemaphore] + 1>> >>,
                            handler |-> Null]),
       !.log = <<NativeCall("enqueue", AcquireBuffer, Null, 0),
                 NativeCall("encodeSignalEvent", AcquireBuffer, signalSemaphore,
                            s.mtlEventValue[signalSemaphore] + 1),
                 NativeCall("commit", AcquireBuffer, Null, 0)>>]

\* The command buffer acquireTexture commits on the queue of the swap chain:
\* it signals the semaphore's event with the semaphore's current value.
acquireBuffer(s, signalSemaphore) ==
    [s EXCEPT
       !.queue = Append(@, [label |-> AcquireBuffer, waits |-> <<>>,
                            signals |-> << <<signalSemaphore, s.mtlEventValue[signalSemaphore]>> >>,
                            handler |-> Null]),
       !.log = <<NativeCall("enqueue", AcquireBuffer, Null, 0),
                 NativeCall("encodeSignalEvent", AcquireBuffer, signalSemaphore,
                            s.mtlEventValue[signalSemaphore]),
                 NativeCall("commit", AcquireBuffer, Null, 0)>>]

\* The waits present encodes: the i-th with mtlEventValue++ of its semaphore.
PresentWaits(s, waitSemaphores) ==
    [i \in 1 .. Len(waitSemaphores) |-> <<waitSemaphores[i], WaitValue(s, waitSemaphores, i)>>]

\* The command buffer present commits on the queue of the swap chain: it
\* waits for the event of each wait semaphore. Its completed handler
\* belongs to the swap chain and signals no fence.
presentBuffer(s, waitSemaphores) ==
    [s EXCEPT
       !.mtlEventValue = [x \in Semaphores |-> @[x] + Occurrences(waitSemaphores, Len(waitSemaphores), x)],
       !.queue = Append(@, [label |-> PresentBuffer, waits |-> PresentWaits(s, waitSemaphores),
                            signals |-> <<>>, handler |-> Null]),
       !.log = <<NativeCall("enqueue", PresentBuffer, Null, 0)>>
               \o [i \in 1 .. Len(waitSemaphores) |->
                     NativeCall("encodeWait", PresentBuffer, waitSemaphores[i],
                                WaitValue(s, waitSemaphores, i))]
               \o <<NativeCall("commit", PresentBuffer, Null, 0)>>]

\* acquireTexture as the queue of the swap chain sees it: the acquire
\* command buffer is committed before the layer is asked for a drawable,
\* whether or not it has one to vend.
CommitAcquireBuffer ==
    /\ QueueIdle
    /\ \E signalSemaphore \in Semaphores :
          QueueCall("acquireTexture", acquireBuffer(q, signalSemaphore))

\* present as the queue of the swap chain sees it.
CommitPresentBuffer ==
    /\ QueueIdle
    /\ \E waitSemaphores \in PresentSemaphoreArrays :
          QueueCall("present", presentBuffer(q, waitSemaphores))

\* waitForCommandFence blocks in dispatch_semaphore_wait until the
\* semaphore's count is positive, and takes one from it when it returns.
WaitForCommandFence ==
    /\ QueueIdle
    /\ \E fence \in Fences :
          QueueCall("waitForCommandFence", [q EXCEPT !.pc = "wait", !.waitFence = fence])

WaitForCommandFenceReturn ==
    /\ q.pc = "wait"
    /\ q.semaphore[q.waitFence] > 0
    /\ q' = [q EXCEPT !.semaphore[q.waitFence] = @ - 1,
                      !.returned[q.waitFence] = @ + 1,
                      !.pc = "idle"]
    /\ UNCHANGED <<cl, lastOp, opCount, limit, sc, scOps, dset, dev, conv>>

\* The device executes the command buffers of the queue in order; a buffer
\* starts once every event it waits on has reached the awaited value.
CanExecute(s) ==
    /\ s.queue # <<>>
    /\ \A i \in DOMAIN s.queue[1].waits :
          s.eventValue[s.queue[1].waits[i][1]] >= s.queue[1].waits[i][2]

SignalledValue(signals, sem, old) ==
    IF \E i \in DOMAIN signals : signals[i][1] = sem
    THEN LET last == CHOOSE i \in DOMAIN signals :
                        signals[i][1] = sem /\ \A j \in DOMAIN signals : signals[j][1] = sem => j <= i
         IN signals[last][2]
    ELSE old

CommandBufferCompleted ==
    /\ CanExecute(q)
    /\ q' = [q EXCEPT
               !.eventValue = [x \in Semaphores |-> SignalledValue(q.queue[1].signals, x, @[x])],
               !.handlers = IF q.queue[1].handler # Null THEN Append(@, q.queue[1].handler) ELSE @,
               !.queue = Tail(@)]
    /\ UNCHANGED <<cl, lastOp, opCount, limit, sc, scOps, dset, dev, conv>>

\* A completed handler that signals the fence's semaphore twice.
FenceCompletedHandler_SignalsTwice ==
    /\ q.handlers # <<>>
    /\ q' = [q EXCEPT !.semaphore[q.handlers[1]] = @ + 2,
                      !.signalled[q.handlers[1]] = @ + 1,
                      !.handlers = Tail(@)]
    /\ UNCHANGED <<cl, lastOp, opCount, limit, sc, scOps, dset, dev, conv>>

\* The completed handler that executeCommandLists attached: it signals the
\* fence's dispatch semaphore.
FenceCompletedHandler ==
    /\ q.handlers # <<>>
    /\ q' = [q EXCEPT !.semaphore[q.handlers[1]] = @ + 1,
                      !.signalled[q.handlers[1]] = @ + 1,
                      !.handlers = Tail(@)]
    /\ UNCHANGED <<cl, lastOp, opCount, limit, sc, scOps, dset, dev, conv>>

\* ------------------------------------------------------------------------
\* Specification of the command list
\* ------------------------------------------------------------------------
Init ==
    /\ cl = NewCommandList
    /\ lastOp = [name |-> "none", args |-> <<>>]
    /\ opCount = 0
    /\ limit = MaxOps
    /\ sc = NewSwapChain
    /\ scOps = 0
    /\ q = NewCommandQueue
    /\ dset = Null
    /\ dev = Null
    /\ conv = Null

Next ==
    \/ Begin \/ End \/ Commit \/ Barriers \/ Dispatch
    \/ DrawInstanced \/ DrawIndexedInstanced
    \/ SetPipeline \/ SetComputePipelineLayout \/ SetGraphicsPipelineLayout
    \/ SetComputePushConstants \/ SetGraphicsPushConstants
    \/ SetComputeDescriptorSet \/ SetGraphicsDescriptorSet
    \/ SetIndexBuffer \/ SetVertexBuffers \/ SetViewports \/ SetScissors
    \/ SetFramebuffer \/ SetDepthBias \/ ClearColor \/ ClearDepthStencil
    \/ CopyBufferRegion \/ CopyTextureRegion \/ CopyBuffer \/ CopyTexture
    \/ ResolveTexture \/ ResolveTextureRegion

Spec == Init /\ [][Next]_vars

\* ------------------------------------------------------------------------
\* Specification of the encoder state machine: the operations that open or
\* close native encoders, and the state a draw flushes, in longer recordings.
\* ------------------------------------------------------------------------
InitEnc ==
    /\ cl = NewCommandList
    /\ lastOp = [name |-> "none", args |-> <<>>]
    /\ opCount = 0
    /\ limit = MaxEncOps
    /\ sc = NewSwapChain
    /\ scOps = 0
    /\ q = NewCommandQueue
    /\ dset = Null
    /\ dev = Null
    /\ conv = Null

NextEnc ==
    \/ Begin \/ End \/ Commit \/ Barriers \/ Dispatch
    \/ DrawInstanced \/ DrawIndexedInstanced
    \/ SetPipeline \/ SetComputePipelineLayout \/ SetViewports
    \/ SetFramebuffer \/ ClearColor \/ ClearDepthStencil
    \/ CopyBufferRegion \/ CopyTextureRegion \/ CopyBuffer \/ CopyTexture
    \/ ResolveTexture \/ ResolveTextureRegion

SpecEnc == InitEnc /\ [][NextEnc]_vars

\* ------------------------------------------------------------------------
\* Specification of the render path: framebuffer, clears, draws and the
\* state they flush, with copies, barriers and end, in longer recordings
\* that may span two command buffers.
\* ------------------------------------------------------------------------
InitRender ==
    /\ cl = NewCommandList
    /\ lastOp = [name |-> "none", args |-> <<>>]
    /\ opCount = 0
    /\ limit = MaxRenderOps
    /\ sc = NewSwapChain
    /\ scOps = 0
    /\ q = NewCommandQueue
    /\ dset = Null
    /\ dev = Null
    /\ conv = Null

NextRender ==
    \/ Begin \/ End \/ Commit \/ Barriers
    \/ DrawInstanced \/ DrawIndexedInstanced
    \/ SetPipeline \/ SetViewports
    \/ SetFramebuffer \/ ClearColor
    \/ CopyBufferRegion \/ CopyTextureRegion \/ CopyBuffer \/ CopyTexture

SpecRender == InitRender /\ [][NextRender]_vars

\* ------------------------------------------------------------------------
\* MetalSwapChain.  The application thread calls acquireTexture and present;
\* the completed handler of a present command buffer runs on a thread of the
\* backend, at any moment after the commit, in commit order.
\* ------------------------------------------------------------------------
CanCallSwapChain == sc.pc = "idle" /\ scOps < limit

\* Variant of acquireTexture that writes *textureIndex before it asks the
\* layer for a drawable.
AcquireTexture_WritesIndexFirst ==
    /\ CanCallSwapChain
    /\ \E textureIndex \in DrawableSlots, available \in BOOLEAN :
          sc' = IF ~available
                THEN [sc EXCEPT !.textureIndex = sc.currentAvailableDrawableIndex,
                                !.passedIndex = textureIndex,
                                !.lastCall = "acquireTexture",
                                !.repeatedResize = FALSE,
                                !.result = "false"]
                ELSE [sc EXCEPT !.textureIndex = sc.currentAvailableDrawableIndex,
                                !.passedIndex = textureIndex,
                                !.nextDrawable = sc.drawablesVended + 1,
                                !.drawablesVended = @ + 1,
                                !.lastCall = "acquireTexture",
                                !.repeatedResize = FALSE,
                                !.pc = "acquire"]
    /\ scOps' = scOps + 1
    /\ UNCHANGED <<cl, lastOp, opCount, limit, q, dset, dev, conv>>

\* layer->nextDrawable() in acquireTexture and the return that follows a
\* null drawable, or the first read of currentAvailableDrawableIndex that
\* follows a drawable.
nextDrawable(s, textureIndex, available) ==
    IF ~available
    THEN [s EXCEPT !.textureIndex = textureIndex,
                   !.passedIndex = textureIndex,
                   !.lastCall = "acquireTexture",
                   !.repeatedResize = FALSE,
                   !.result = "false"]
    ELSE [s EXCEPT !.textureIndex = s.currentAvailableDrawableIndex,
                   !.passedIndex = textureIndex,
                   !.nextDrawable = s.drawablesVended + 1,
                   !.drawablesVended = @ + 1,
                   !.lastCall = "acquireTexture",
                   !.repeatedResize = FALSE,
                   !.pc = "acquire"]

\* acquireTexture up to the first read of currentAvailableDrawableIndex:
\* the caller passes *textureIndex < MAX_DRAWABLES; the layer has a drawable
\* to vend or not.
AcquireTexture ==
    /\ CanCallSwapChain
    /\ \E textureIndex \in DrawableSlots, available \in BOOLEAN :
          sc' = nextDrawable(sc, textureIndex, available)
    /\ scOps' = scOps + 1
    /\ UNCHANGED <<cl, lastOp, opCount, limit, q, dset, dev, conv>>

\* acquireTexture up to the same point, with the queue of the swap chain:
\* the acquire command buffer is committed first, then the layer is asked
\* for a drawable and has one to vend or not.
AcquireTextureSignal ==
    /\ CanCallSwapChain /\ q.pc = "idle"
    /\ \E signalSemaphore \in Semaphores, textureIndex \in DrawableSlots, available \in BOOLEAN :
          /\ q' = QueueAfter("acquireTexture", acquireBuffer(q, signalSemaphore))
          /\ sc' = nextDrawable(sc, textureIndex, available)
    /\ scOps' = scOps + 1
    /\ UNCHANGED <<cl, lastOp, opCount, limit, dset, dev, conv>>

\* Variant of the second half of acquireTexture that moves the ring index on
\* once the slot is filled.
AcquireTextureFinish_AdvancesIndex ==
    /\ sc.pc = "acquire"
    /\ \E slot \in {sc.textureIndex, sc.currentAvailableDrawableIndex} :
          sc' = [sc EXCEPT !.drawables[slot] = sc.nextDrawable,
                           !.drawableDesc[slot] = <<sc.width, sc.height>>,
                           !.currentAvailableDrawableIndex = (@ + 1) % MAX_DRAWABLES,
                           !.nextDrawable = NullDrawable,
                           !.pc = "idle",
                           !.result = "true",
                           !.awaitingPresent[sc.textureIndex] = TRUE]
    /\ UNCHANGED <<cl, lastOp, opCount, limit, scOps, q, dset, dev, conv>>

\* The rest of acquireTexture: drawables[currentAvailableDrawableIndex] is a
\* second, unsynchronised read of the index, which the build may have merged
\* with the first one.
AcquireTextureFinish ==
    /\ sc.pc = "acquire"
    /\ \E slot \in {sc.textureIndex, sc.currentAvailableDrawableIndex} :
          sc' = [sc EXCEPT !.drawables[slot] = sc.nextDrawable,
                           !.drawableDesc[slot] = <<sc.width, sc.height>>,
                           !.nextDrawable = NullDrawable,
                           !.pc = "idle",
                           !.result = "true",
                           !.awaitingPresent[sc.textureIndex] = TRUE]
    /\ UNCHANGED <<cl, lastOp, opCount, limit, scOps, q, dset, dev, conv>>

Present ==
    /\ CanCallSwapChain
    /\ \E textureIndex \in DrawableSlots :
          /\ sc.drawables[textureIndex] # NullDrawable
          /\ sc' = [sc EXCEPT !.inFlight =
                                  Append(@, [textureIndex |-> textureIndex,
                                             drawableMtl |-> sc.drawables[textureIndex]]),
                              !.lastCall = "present",
                              !.repeatedResize = FALSE,
                              !.result = "true"]
    /\ scOps' = scOps + 1
    /\ UNCHANGED <<cl, lastOp, opCount, limit, q, dset, dev, conv>>

\* Variant of resize that sets the drawable size of the layer whatever its
\* current size is.
Resize_AlwaysSets ==
    /\ CanCallSwapChain
    /\ \E size \in WindowSizes :
          LET s1 == [sc EXCEPT !.width = size[1], !.height = size[2], !.lastCall = "resize",
                               !.repeatedResize = sc.lastCall = "resize"
                                                  /\ size = <<sc.width, sc.height>>]
          IN sc' = IF size[1] = 0 \/ size[2] = 0
                   THEN [s1 EXCEPT !.result = "false"]
                   ELSE [s1 EXCEPT !.layerDrawableSize = size,
                                   !.setDrawableSizeCalls = @ + 1,
                                   !.drawableDesc = [i \in DrawableSlots |-> size],
                                   !.result = "true"]
    /\ scOps' = scOps + 1
    /\ UNCHANGED <<cl, lastOp, opCount, limit, q, dset, dev, conv>>

Resize ==
    /\ CanCallSwapChain
    /\ \E size \in WindowSizes :
          LET s1 == [sc EXCEPT !.width = size[1], !.height = size[2], !.lastCall = "resize",
                               !.repeatedResize = sc.lastCall = "resize"
                                                  /\ size = <<sc.width, sc.height>>]
          IN sc' = IF size[1] = 0 \/ size[2] = 0
                   THEN [s1 EXCEPT !.result = "false"]
                   ELSE IF s1.layerDrawableSize # size
                   THEN [s1 EXCEPT !.layerDrawableSize = size,
                                   !.setDrawableSizeCalls = @ + 1,
                                   !.drawableDesc = [i \in DrawableSlots |-> size],
                                   !.result = "true"]
                   ELSE [s1 EXCEPT !.result = "true"]
    /\ scOps' = scOps + 1
    /\ UNCHANGED <<cl, lastOp, opCount, limit, q, dset, dev, conv>>

\* The completed handler of the oldest present command buffer, run by the
\* backend on its completion thread, one handler at a time: it reads the
\* index, then writes the incremented value and releases the drawable.
PresentCompletedRead ==
    /\ sc.inFlight # <<>> /\ sc.handler = "idle"
    /\ sc' = [sc EXCEPT !.handler = "read",
                        !.handlerRead = sc.currentAvailableDrawableIndex]
    /\ UNCHANGED <<cl, lastOp, opCount, limit, scOps, q, dset, dev, conv>>

PresentCompleted ==
    /\ sc.handler = "read"
    /\ sc' = [sc EXCEPT !.currentAvailableDrawableIndex = (sc.handlerRead + 1) % MAX_DRAWABLES,
                        !.handler = "idle",
                        !.handlerRead = 0,
                        !.completedPresents = @ + 1,
                        !.inFlight = Tail(@),
                        !.awaitingPresent[Head(sc.inFlight).textureIndex] = FALSE]
    /\ UNCHANGED <<cl, lastOp, opCount, limit, scOps, q, dset, dev, conv>>

InitSC ==
    /\ cl = NewCommandList
    /\ lastOp = [name |-> "none", args |-> <<>>]
    /\ opCount = 0
    /\ limit = MaxScOps
    /\ sc = NewSwapChain
    /\ scOps = 0
    /\ q = NewCommandQueue
    /\ dset = Null
    /\ dev = Null
    /\ conv = Null

NextSC ==
    \/ AcquireTexture \/ AcquireTextureFinish \/ Present \/ Resize
    \/ PresentCompletedRead \/ PresentCompleted

SpecSC == InitSC /\ [][NextSC]_vars

\* ------------------------------------------------------------------------
\* acquireTexture with the queue of the swap chain: the calls, and the
\* device executing the acquire command buffers.
\* ------------------------------------------------------------------------
MaxAcquireOps == 3

InitAcquire ==
    /\ cl = NewCommandList
    /\ lastOp = [name |-> "none", args |-> <<>>]
    /\ opCount = 0
    /\ limit = MaxAcquireOps
    /\ sc = NewSwapChain
    /\ scOps = 0
    /\ q = NewCommandQueue
    /\ dset = Null
    /\ dev = Null
    /\ conv = Null

NextAcquire == AcquireTextureSignal \/ AcquireTextureFinish \/ CommandBufferCompleted

SpecAcquire == InitAcquire /\ [][NextAcquire]_vars

\* ------------------------------------------------------------------------
\* The clear pipeline key of two descriptors.
\* ------------------------------------------------------------------------
InitKey ==
    /\ cl = NewCommandList
    /\ lastOp = [name |-> "none", args |-> <<>>]
    /\ opCount = 0
    /\ limit = 0
    /\ sc = NewSwapChain
    /\ scOps = 0
    /\ q = NewCommandQueue
    /\ dset = Null
    /\ \E first, second \in ClearPipelineDescs : dev = NewKeyPair(first, second)
    /\ conv = Null

NextKey == CreateClearPipelineKey

SpecKey == InitKey /\ [][NextKey]_vars

\* ------------------------------------------------------------------------
\* The command queue alone: submissions, fence waits, and the device
\* executing the committed buffers and running their completed handlers.
\* SpecQueueFair adds the progress of the device, of the completed handlers
\* and of a released wait.
\* ------------------------------------------------------------------------
InitQueue ==
    /\ cl = NewCommandList
    /\ lastOp = [name |-> "none", args |-> <<>>]
    /\ opCount = 0
    /\ limit = MaxQueueOps
    /\ sc = NewSwapChain
    /\ scOps = 0
    /\ q = NewCommandQueue
    /\ dset = Null
    /\ dev = Null
    /\ conv = Null

NextQueue ==
    \/ ExecuteCommandLists \/ BeginCommandList
    \/ WaitForCommandFence \/ WaitForCommandFenceReturn
    \/ CommandBufferCompleted \/ FenceCompletedHandler

SpecQueue == InitQueue /\ [][NextQueue]_vars

SpecQueueFair ==
    /\ InitQueue /\ [][NextQueue]_vars
    /\ WF_vars(CommandBufferCompleted)
    /\ WF_vars(FenceCompletedHandler)
    /\ WF_vars(WaitForCommandFenceReturn)

\* ------------------------------------------------------------------------
\* The frames of an application on one queue: acquireTexture, submissions
\* and present in any order and with any semaphores, and the device
\* executing the committed buffers. SpecFrameFair adds the progress of the
\* device and of the completed handlers.
\* ------------------------------------------------------------------------
MaxFrameOps == 3

InitFrame ==
    /\ cl = NewCommandList
    /\ lastOp = [name |-> "none", args |-> <<>>]
    /\ opCount = 0
    /\ limit = MaxFrameOps
    /\ sc = NewSwapChain
    /\ scOps = 0
    /\ q = NewCommandQueue
    /\ dset = Null
    /\ dev = Null
    /\ conv = Null

NextFrame ==
    \/ CommitAcquireBuffer \/ ExecuteCommandLists \/ CommitPresentBuffer
    \/ BeginCommandList
    \/ CommandBufferCompleted \/ FenceCompletedHandler

SpecFrame == InitFrame /\ [][NextFrame]_vars

\* ------------------------------------------------------------------------
\* The cycle of the command lists: lists that were never begun, begin() on
\* any of them at any time, submissions of begun lists, and the device.
\* ------------------------------------------------------------------------
MaxCycleOps == 4

InitCycle ==
    /\ cl = NewCommandList
    /\ lastOp = [name |-> "none", args |-> <<>>]
    /\ opCount = 0
    /\ limit = MaxCycleOps
    /\ sc = NewSwapChain
    /\ scOps = 0
    /\ q = [NewCommandQueue EXCEPT !.listMtl = [l \in CommandLists |-> Null],
                                   !.cycle = [l \in CommandLists |-> "new"]]
    /\ dset = Null
    /\ dev = Null
    /\ conv = Null

NextCycle ==
    \/ BeginAnyCommandList \/ ExecuteCommandLists
    \/ CommandBufferCompleted \/ FenceCompletedHandler

SpecCycle == InitCycle /\ [][NextCycle]_vars

SpecFrameFair ==
    /\ InitFrame /\ [][NextFrame]_vars
    /\ WF_vars(CommandBufferCompleted)
    /\ WF_vars(FenceCompletedHandler)

\* ------------------------------------------------------------------------
\* Clears among draws: the command list after begin() and
\* setFramebuffer(fb), followed by state changes, clears, draws and a copy.
\* ------------------------------------------------------------------------
MaxClearOps == 6

InitClear ==
    /\ \E framebuffer \in Framebuffers :
          /\ cl = [setFramebuffer(begin(NewCommandList), framebuffer)
                     EXCEPT !.scenario = ScenarioNext(ScenarioNext(0, "begin", <<>>),
                                                      "setFramebuffer", <<framebuffer>>)]
          /\ lastOp = [name |-> "setFramebuffer", args |-> <<framebuffer>>]
    /\ opCount = 2
    /\ limit = MaxClearOps
    /\ sc = NewSwapChain
    /\ scOps = 0
    /\ q = NewCommandQueue
    /\ dset = Null
    /\ dev = Null
    /\ conv = Null

NextClear ==
    \/ SetPipeline \/ SetViewports \/ SetScissors
    \/ ClearColor \/ ClearDepthStencil
    \/ DrawInstanced \/ DrawIndexedInstanced
    \/ CopyBuffer \/ End

SpecClear == InitClear /\ [][NextClear]_vars

\* ------------------------------------------------------------------------
\* Full clears and the passes that apply them: the command list after
\* begin() and setFramebuffer(fb), followed by clears, draws, a copy,
\* framebuffer changes, resolves and end().
\* ------------------------------------------------------------------------
MaxFullClearOps == 6

InitFullClear ==
    /\ InitClear
    /\ limit = MaxFullClearOps

NextFullClear ==
    \/ ClearColor \/ ClearDepthStencil
    \/ DrawInstanced \/ CopyBuffer
    \/ SetFramebuffer \/ ResolveTexture \/ End

SpecFullClear == InitFullClear /\ [][NextFullClear]_vars

\* ------------------------------------------------------------------------
\* Descriptor sets on encoders: the command list after begin(),
\* setFramebuffer(fb), setViewports, setScissors and setPipeline of a
\* graphics and of a compute pipeline, followed by layout and descriptor-set
\* changes, draws, dispatches, a copy and end().
\* ------------------------------------------------------------------------
MaxBindOps == 11

InitBind ==
    /\ \E s1 \in {setFramebuffer(begin(NewCommandList), "fbColor")} :
       \E s2 \in {setViewports(s1, <<"vpFull">>)} :
       \E s3 \in {setScissors(s2, <<[left |-> 0, top |-> 0, right |-> 4, bottom |-> 4]>>)} :
       \E s4 \in {setPipeline(s3, "gpStatic")} :
          cl = [setPipeline(s4, "cp") EXCEPT !.scenario = 2]
    /\ lastOp = [name |-> "setPipeline", args |-> <<"cp">>]
    /\ opCount = 6
    /\ limit = MaxBindOps
    /\ sc = NewSwapChain
    /\ scOps = 0
    /\ q = NewCommandQueue
    /\ dset = Null
    /\ dev = Null
    /\ conv = Null

NextBind ==
    \/ SetGraphicsPipelineLayout \/ SetGraphicsDescriptorSet
    \/ SetComputePipelineLayout \/ SetComputeDescriptorSet
    \/ DrawIndexedInstanced \/ Dispatch
    \/ CopyBuffer \/ End

SpecBind == InitBind /\ [][NextBind]_vars

\* ------------------------------------------------------------------------
\* Specification of the descriptor set layout: a description drawn from the
\* bounded set, and the constructor applied to it.
\* ------------------------------------------------------------------------
InitLayout ==
    /\ cl = NewCommandList
    /\ lastOp = [name |-> "none", args |-> <<>>]
    /\ opCount = 0
    /\ limit = 0
    /\ sc = NewSwapChain
    /\ scOps = 0
    /\ q = NewCommandQueue
    /\ \E desc \in DescriptorSetDescs(MaxRanges, RangeBindings, BoundlessRangeSizes) :
          dset = NoDescriptorSet(desc)
    /\ dev = Null
    /\ conv = Null

NextLayout == CreateDescriptorSet

SpecLayout == InitLayout /\ [][NextLayout]_vars

\* ------------------------------------------------------------------------
\* Specification of the descriptor set: construction, then setBuffer,
\* setTexture and setSampler calls on its flat descriptor indices.
\* ------------------------------------------------------------------------
InitDesc ==
    /\ cl = NewCommandList
    /\ lastOp = [name |-> "none", args |-> <<>>]
    /\ opCount = 0
    /\ limit = MaxDescOps
    /\ sc = NewSwapChain
    /\ scOps = 0
    /\ q = NewCommandQueue
    /\ \E desc \in DescriptorSetDescs(MaxSetRanges, SetRangeBindings, {0}) :
          dset = NoDescriptorSet(desc)
    /\ dev = Null
    /\ conv = Null

NextDesc == CreateDescriptorSet \/ SetBuffer \/ SetTexture \/ SetSampler

SpecDesc == InitDesc /\ [][NextDesc]_vars

\* The life of a descriptor set: construction, setBuffer, setTexture and
\* setSampler calls, destruction.
MaxReleaseOps == 2

InitRelease ==
    /\ cl = NewCommandList
    /\ lastOp = [name |-> "none", args |-> <<>>]
    /\ opCount = 0
    /\ limit = MaxReleaseOps
    /\ sc = NewSwapChain
    /\ scOps = 0
    /\ q = NewCommandQueue
    /\ \E desc \in DescriptorSetDescs(MaxSetRanges, SetRangeBindings, {0}) :
          dset = NoDescriptorSet(desc)
    /\ dev = Null
    /\ conv = Null

NextRelease ==
    \/ CreateDescriptorSet \/ SetBuffer \/ SetTexture \/ SetSampler
    \/ DestroyDescriptorSet

SpecRelease == InitRelease /\ [][NextRelease]_vars

\* ------------------------------------------------------------------------
\* Push constants of both domains: the command list after begin(), followed
\* by changes of the pipeline layouts and by push-constant writes.
\* ------------------------------------------------------------------------
MaxPushOps == 5

InitPush ==
    /\ cl = [begin(NewCommandList) EXCEPT !.scenario = ScenarioNext(0, "begin", <<>>)]
    /\ lastOp = [name |-> "begin", args |-> <<>>]
    /\ opCount = 1
    /\ limit = MaxPushOps
    /\ sc = NewSwapChain
    /\ scOps = 0
    /\ q = NewCommandQueue
    /\ dset = Null
    /\ dev = Null
    /\ conv = Null

NextPush ==
    \/ SetComputePipelineLayout \/ SetGraphicsPipelineLayout
    \/ SetComputePushConstants \/ SetGraphicsPushConstants

SpecPush == InitPush /\ [][NextPush]_vars

\* The same recordings with every offset and size the setters accept.
MaxCopyOps == 4

InitCopy ==
    /\ cl = [begin(NewCommandList) EXCEPT !.scenario = ScenarioNext(0, "begin", <<>>)]
    /\ lastOp = [name |-> "begin", args |-> <<>>]
    /\ opCount = 1
    /\ limit = MaxCopyOps
    /\ sc = NewSwapChain
    /\ scOps = 0
    /\ q = NewCommandQueue
    /\ dset = Null
    /\ dev = Null
    /\ conv = Null

NextCopy ==
    \/ SetComputePipelineLayout \/ SetGraphicsPipelineLayout
    \/ SetComputePushConstantsAccepted \/ SetGraphicsPushConstantsAccepted

SpecCopy == InitCopy /\ [][NextCopy]_vars

\* ------------------------------------------------------------------------
\* Depth bias among draws: the command list after begin(), setFramebuffer,
\* setViewports and setScissors, followed by pipeline changes, setDepthBias,
\* draws and a copy.
\* ------------------------------------------------------------------------
MaxBiasOps == 9

InitBias ==
    /\ \E viewport \in Viewports, rect \in RenderRects :
          /\ cl = [setScissors(setViewports(setFramebuffer(begin(NewCommandList), "fbColor"),
                                           <<viewport>>), <<rect>>)
                     EXCEPT !.scenario = ScenarioNext(ScenarioNext(0, "begin", <<>>),
                                                      "setFramebuffer", <<"fbColor">>)]
          /\ lastOp = [name |-> "setScissors", args |-> <<<<rect>>>>]
    /\ opCount = 4
    /\ limit = MaxBiasOps
    /\ sc = NewSwapChain
    /\ scOps = 0
    /\ q = NewCommandQueue
    /\ dset = Null
    /\ dev = Null
    /\ conv = Null

NextBias ==
    \/ SetPipeline \/ SetDepthBias
    \/ DrawInstanced \/ DrawIndexedInstanced
    \/ CopyBuffer

SpecBias == InitBias /\ [][NextBias]_vars

\* ------------------------------------------------------------------------
\* Encoders opened again: the command list after begin(), setFramebuffer,
\* setPipeline of a graphics and of a compute pipeline, and with layouts,
\* descriptor sets, a vertex buffer and push constants recorded in both
\* domains, followed by viewport and scissor changes, draws, dispatches and
\* a copy.
\* ------------------------------------------------------------------------
MaxRebindOps == 16

InitRebind ==
    /\ \E s1 \in {setFramebuffer(begin(NewCommandList), "fbColor")} :
       \E s2 \in {setPipeline(setPipeline(s1, "gpStatic"), "cp")} :
       \E s3 \in {setComputePipelineLayout(setGraphicsPipelineLayout(s2, "layoutB"), "layoutB")} :
       \E s4 \in {setComputeDescriptorSet(setGraphicsDescriptorSet(s3, "dsA", 0), "dsB", 0)} :
       \E s5 \in {setVertexBuffers(s4, 0, <<[buffer |-> "vb0", offset |-> 0]>>)} :
       \E s6 \in {setGraphicsPushConstants(s5, 1, <<1>>, 0, 0)} :
          cl = [setComputePushConstants(s6, 0, <<2, 2>>, 0, 0) EXCEPT !.scenario = 2]
    /\ lastOp = [name |-> "setComputePushConstants", args |-> <<0, 2, 0, 0>>]
    /\ opCount = 11
    /\ limit = MaxRebindOps
    /\ sc = NewSwapChain
    /\ scOps = 0
    /\ q = NewCommandQueue
    /\ dset = Null
    /\ dev = Null
    /\ conv = Null

NextRebind ==
    \/ SetViewports \/ SetScissors
    \/ DrawInstanced \/ Dispatch
    \/ CopyBuffer

SpecRebind == InitRebind /\ [][NextRebind]_vars

\* ------------------------------------------------------------------------
\* Descriptor sets between flushes: the command list after begin(),
\* setFramebuffer, setViewports, setScissors, setPipeline of a graphics and
\* of a compute pipeline, with a layout of two sets and a descriptor set at
\* index 0 in both domains, followed by descriptor-set changes, draws,
\* dispatches and a copy.
\* ------------------------------------------------------------------------
MaxSetOps == 15

InitSets ==
    /\ \E s1 \in {setFramebuffer(begin(NewCommandList), "fbColor")} :
       \E s2 \in {setViewports(s1, <<"vpFull">>)} :
       \E s3 \in {setScissors(s2, <<[left |-> 0, top |-> 0, right |-> 4, bottom |-> 4]>>)} :
       \E s4 \in {setPipeline(setPipeline(s3, "gpStatic"), "cp")} :
       \E s5 \in {setComputePipelineLayout(setGraphicsPipelineLayout(s4, "layoutA"), "layoutA")} :
       \E s6 \in {setGraphicsDescriptorSet(s5, "dsA", 0)} :
          cl = [setComputeDescriptorSet(s6, "dsA", 0)
                  EXCEPT !.scenario = 2,
                         !.graphicsSince.lowest = 0, !.computeSince.lowest = 0]
    /\ lastOp = [name |-> "setComputeDescriptorSet", args |-> <<"dsA", 0>>]
    /\ opCount = 10
    /\ limit = MaxSetOps
    /\ sc = NewSwapChain
    /\ scOps = 0
    /\ q = NewCommandQueue
    /\ dset = Null
    /\ dev = Null
    /\ conv = Null

NextSets ==
    \/ SetGraphicsDescriptorSet \/ SetComputeDescriptorSet
    \/ DrawInstanced \/ Dispatch
    \/ CopyBuffer

SpecSets == InitSets /\ [][NextSets]_vars

\* ------------------------------------------------------------------------
\* Specification of the clear pipeline cache: two threads, each calling
\* getOrCreateClearRenderPipelineState up to MaxDeviceCalls times.
\* ------------------------------------------------------------------------
InitDevice ==
    /\ cl = NewCommandList
    /\ lastOp = [name |-> "none", args |-> <<>>]
    /\ opCount = 0
    /\ limit = MaxDeviceCalls
    /\ sc = NewSwapChain
    /\ scOps = 0
    /\ q = NewCommandQueue
    /\ dset = Null
    /\ dev = NewDevice
    /\ conv = Null

NextDevice ==
    \/ CallGetOrCreateClearRenderPipelineState \/ LockClearPipelineState
    \/ FindClearPipelineState \/ NewRenderPipelineState
    \/ InsertClearPipelineState \/ ReturnClearPipelineState

SpecDevice == InitDevice /\ [][NextDevice]_vars

\* ------------------------------------------------------------------------
\* Specification of the format conversion: a render format out of the case
\* labels of mapPixelFormat, mapped to the native format and back.
\* ------------------------------------------------------------------------
InitFormat ==
    /\ cl = NewCommandList
    /\ lastOp = [name |-> "none", args |-> <<>>]
    /\ opCount = 0
    /\ limit = 0
    /\ sc = NewSwapChain
    /\ scOps = 0
    /\ q = NewCommandQueue
    /\ dset = Null
    /\ dev = Null
    /\ \E format \in RenderFormats : conv = NewConversion(format)

NextFormat == MapPixelFormat \/ MapRenderFormat

SpecFormat == InitFormat /\ [][NextFormat]_vars

\* ------------------------------------------------------------------------
\* Specification of the scissor clamp: a rectangle with coordinates from
\* below zero to beyond the render target, and clampScissorRectIfNecessary
\* applied to it for a framebuffer with a colour attachment.
\* ------------------------------------------------------------------------
MaxCoordinate == 6

ScissorCoordinates == -1 .. MaxCoordinate

NewClamp(rect, targetFramebuffer) ==
    [rect |-> rect, targetFramebuffer |-> targetFramebuffer,
     clampedRect |-> [x |-> 0, y |-> 0, width |-> 0, height |-> 0], stage |-> "given"]

\* scissorVector[i] = clampScissorRectIfNecessary(scissorRects[i], targetFramebuffer)
ClampScissorRect ==
    /\ conv.stage = "given"
    /\ conv' = [conv EXCEPT
                   !.clampedRect = clampScissorRectIfNecessary(conv.rect, conv.targetFramebuffer),
                   !.stage = "clamped"]
    /\ UNCHANGED <<cl, lastOp, opCount, limit, sc, scOps, q, dset, dev>>

InitScissor ==
    /\ cl = NewCommandList
    /\ lastOp = [name |-> "none", args |-> <<>>]
    /\ opCount = 0
    /\ limit = 0
    /\ sc = NewSwapChain
    /\ scOps = 0
    /\ q = NewCommandQueue
    /\ dset = Null
    /\ dev = Null
    /\ \E rect \in [left : ScissorCoordinates, top : ScissorCoordinates,
                     right : ScissorCoordinates, bottom : ScissorCoordinates],
          targetFramebuffer \in Framebuffers :
          conv = NewClamp(rect, targetFramebuffer)

NextScissor == ClampScissorRect

SpecScissor == InitScissor /\ [][NextScissor]_vars

(***************************************************************************)
(* Properties of the command list's encoders.                              *)
(***************************************************************************)

\* C1: in every reachable state at most one of the four native encoders
\* (render, compute, blit, resolve-compute) is open, none was ever opened
\* while another one was still open, and an open encoder is of the kind that
\* activeType names.
C1_OneEncoderOpen ==
    /\ Cardinality(OpenEncoders(cl)) <= 1
    /\ ~cl.overlap
    /\ \A k \in OpenEncoders(cl) : cl.activeType = k

\* A draw has just opened the render encoder after a copy had the blit
\* encoder open: the switch of kind that the property is about.
C1_Witness ==
    /\ lastOp.name \in DrawOps
    /\ cl.activeRenderEncoder # Null
    /\ Len(cl.calls) >= 2
    /\ cl.calls[1].call = "endEncoding" /\ cl.calls[1].arg[1] = "Blit"
    /\ cl.calls[2].call = "renderCommandEncoder"

\* The attachment of a render pass that slot i of the pending clears stands
\* for: the colour attachments first, then depth, then stencil.
PassAttachment(pass, fb, i) ==
    IF i < ColorAttachmentCount(fb) THEN pass.color[i]
    ELSE IF i = ColorAttachmentCount(fb) THEN pass.depth
    ELSE pass.stencil

CallCount(calls, name) == Cardinality({k \in DOMAIN calls : calls[k].call = name})

C3_EveryBarriersCall ==
    (lastOp.name = "barriers" /\ ~cl.crashed)
    => cl.activeRenderEncoder = Null /\ ~cl.pendingClears.active

\* C3 (amended): on return of a barriers(...) call that passes at least one
\* buffer or texture barrier no render encoder is open and no full clear is
\* pending; a call with no barrier at all returns at once.
C3_NonEmptyBarriers ==
    (lastOp.name = "barriers" /\ ~cl.crashed)
    => IF lastOp.args[1] > 0 \/ lastOp.args[2] > 0
       THEN cl.activeRenderEncoder = Null /\ ~cl.pendingClears.active
       ELSE cl.calls = <<>>

\* A barriers call with a barrier has flushed a pending clear: it opened the
\* clearing render pass and ended it.
C3_Witness ==
    /\ lastOp.name = "barriers"
    /\ lastOp.args[1] + lastOp.args[2] > 0
    /\ CallCount(cl.calls, "renderCommandEncoder") = 1
    /\ CallCount(cl.calls, "endEncoding") >= 1
    /\ cl.activeRenderEncoder = Null

\* Position of the first native call of the given name among the calls of
\* the last operation (0 when there is none).
FirstCall(calls, name) ==
    IF \E k \in DOMAIN calls : calls[k].call = name
    THEN CHOOSE k \in DOMAIN calls :
            calls[k].call = name /\ \A j \in 1 .. (k - 1) : calls[j].call # name
    ELSE 0

\* A copy recorded while the render encoder is open ends the render encoder,
\* and only then opens the blit encoder.
CopyEndsRenderFirst ==
    (lastOp'.name \in CopyOps /\ cl.activeRenderEncoder # Null)
    => /\ cl'.activeRenderEncoder = Null
       /\ cl'.activeBlitEncoder # Null
       /\ ~cl'.overlap
       /\ FirstCall(cl'.calls, "endEncoding") > 0
       /\ cl'.calls[FirstCall(cl'.calls, "endEncoding")].arg[1] = "Render"
       /\ FirstCall(cl'.calls, "blitCommandEncoder") > FirstCall(cl'.calls, "endEncoding")

EndRank(kind) ==
    CASE kind = "Render" -> 1
      [] kind = "Resolve" -> 2
      [] kind = "Blit" -> 3
      [] kind = "Compute" -> 4

\* C5: when end() returns no encoder is open, no full clear is pending,
\* targetFramebuffer is unset and all 19 vertex-buffer bindings are empty;
\* the encoders that were open at the call are ended in the order render,
\* resolve-compute, blit, compute.
C5_EndLeavesNothingOpen ==
    [][lastOp'.name = "end"
       => /\ OpenEncoders(cl') = {}
          /\ ~cl'.pendingClears.active
          /\ cl'.targetFramebuffer = Null
          /\ DOMAIN cl'.vertexBuffers = 0 .. 18
          /\ \A i \in 0 .. 18 :
                cl'.vertexBuffers[i] = Null /\ cl'.vertexBufferOffsets[i] = 0
          /\ \A k \in OpenEncoders(cl) :
                \E j \in DOMAIN cl'.calls :
                   cl'.calls[j].call = "endEncoding" /\ cl'.calls[j].arg[1] = k
          /\ \A i, j \in DOMAIN cl'.calls :
                (/\ i < j
                 /\ cl'.calls[i].call = "endEncoding" /\ cl'.calls[j].call = "endEncoding"
                 /\ cl'.calls[i].arg[1] \in OpenEncoders(cl)
                 /\ cl'.calls[j].arg[1] \in OpenEncoders(cl))
                => EndRank(cl'.calls[i].arg[1]) <= EndRank(cl'.calls[j].arg[1])
      ]_vars

\* end() has flushed a pending full clear through a render pass of its own
\* and ended it.
C5_Witness ==
    /\ lastOp.name = "end"
    /\ CallCount(cl.calls, "renderCommandEncoder") = 1
    /\ \E j \in DOMAIN cl.calls :
          cl.calls[j].call = "endEncoding" /\ cl.calls[j].arg[1] = "Render"
    /\ OpenEncoders(cl) = {}

\* C6 (as stated): begin() starts from empty state: no active encoder kind,
\* no pending clear, and no pipeline, pipeline layout, descriptor set, push
\* constant, viewport, scissor, depth-bias or index-buffer state left from
\* a previous recording.
C6_BeginStartsEmpty ==
    (lastOp.name = "begin")
    => /\ cl.activeType = "None"
       /\ OpenEncoders(cl) = {}
       /\ ~cl.pendingClears.active
       /\ cl.activeRenderState = Null /\ cl.activeComputeState = Null
       /\ cl.activeGraphicsPipelineLayout = Null /\ cl.activeComputePipelineLayout = Null
       /\ \A i \in SetSlots :
             cl.renderDescriptorSets[i] = Null /\ cl.computeDescriptorSets[i] = Null
       /\ cl.pushConstants = <<>>
       /\ cl.viewportVector = <<>> /\ cl.scissorVector = <<>>
       /\ cl.dynamicDepthBias = IndeterminateBias
       /\ cl.indexBuffer = Null

\* The flush category of a native call of a draw: 1 pipeline, 2 viewports,
\* 3 depth bias, 4 scissors, 5 vertex-buffer slots, 6 descriptor sets,
\* 7 push constants; 0 for the other calls.
FlushRank(c) ==
    CASE c.call = "setRenderPipelineState" -> 1
      [] c.call = "setViewports" -> 2
      [] c.call = "setDepthBias" -> 3
      [] c.call = "setScissorRects" -> 4
      [] c.call = "setVertexBuffer" ->
            IF c.arg[Len(c.arg)] >= VERTEX_BUFFERS_BINDING_INDEX THEN 5 ELSE 6
      [] c.call = "setFragmentBuffer" -> 6
      [] c.call \in {"setVertexBytes", "setFragmentBytes"} -> 7
      [] OTHER -> 0

\* C7 (as stated): a draw flushes every dirty category, in the order
\* pipeline, viewports, depth bias, scissors, dirty vertex slots, descriptor
\* sets, push constants, and when it returns none of these dirty bits is
\* set, whatever state has or has not been recorded before it.
C7_DrawFlushesEveryDirtyCategory ==
    [][(lastOp'.name \in DrawOps /\ ~cl'.crashed)
       => /\ ~cl'.dirtyGraphicsState.pipelineState
          /\ ~cl'.dirtyGraphicsState.viewports
          /\ ~cl'.dirtyGraphicsState.depthBias
          /\ ~cl'.dirtyGraphicsState.scissors
          /\ cl'.dirtyGraphicsState.vertexBufferSlots = {}
          /\ ~cl'.dirtyGraphicsState.descriptorSets
          /\ ~cl'.dirtyGraphicsState.pushConstants
          /\ \A i, j \in DOMAIN cl'.calls :
                (i < j /\ FlushRank(cl'.calls[i]) > 0 /\ FlushRank(cl'.calls[j]) > 0)
                => FlushRank(cl'.calls[i]) <= FlushRank(cl'.calls[j])
      ]_vars

\* C8: draws issued on one render encoder with nothing but draws recorded
\* since the draw that opened it bind the pipeline once: the first draw
\* binds it, and a draw that follows a draw on the same encoder does not
\* bind it again.
C8_PipelineBoundOnce ==
    [][/\ (/\ lastOp'.name \in DrawOps /\ ~cl'.crashed
           /\ cl'.encOnlyDraws /\ cl'.activeRenderState # Null)
          => cl'.encPipelineBinds = 1
       /\ (/\ lastOp.name \in DrawOps /\ ~cl.crashed /\ cl.activeRenderEncoder # Null
           /\ lastOp'.name \in DrawOps /\ ~cl'.crashed)
          => /\ cl'.renderOpens = cl.renderOpens
             /\ CallCount(cl'.calls, "setRenderPipelineState") = 0
      ]_vars

\* Three draws in a row on one render encoder, with a pipeline set: the
\* last one has issued its draw call and no pipeline bind.
C8_Witness ==
    /\ lastOp.name \in DrawOps /\ ~cl.crashed
    /\ cl.encOnlyDraws /\ cl.activeRenderState # Null
    /\ cl.drawCount = 3 /\ cl.renderOpens = 1
    /\ cl.encPipelineBinds = 1
    /\ CallCount(cl.calls, "setRenderPipelineState") = 0

(***************************************************************************)
(* Properties of the swap chain.                                           *)
(***************************************************************************)

\* C9 (as stated): acquireTexture never returns a ring index that an earlier
\* acquireTexture returned and whose present has not completed yet.
C9_AcquireNeverRepeatsIndex ==
    [][(sc.pc = "acquire" /\ sc'.pc = "idle")
       => ~sc.awaitingPresent[sc'.textureIndex]]_vars

\* C10 (as stated): no two presents of the same slot are in flight at once,
\* whatever sequence of acquireTexture and present calls is made.
C10_OnePresentPerSlotInFlight ==
    \A i, j \in DOMAIN sc.inFlight :
       i # j => sc.inFlight[i].textureIndex # sc.inFlight[j].textureIndex

\* C11: currentAvailableDrawableIndex changes only in the last step of a
\* present's completed handler, where it advances by one modulo 3; every
\* step of acquireTexture, present and resize leaves it unchanged; it stays
\* in [0, 3) and equals the number of completed presents modulo 3, however
\* the handler's steps interleave with the calls of the application thread.
C11_IndexFollowsCompletions ==
    [][/\ sc'.currentAvailableDrawableIndex \in 0 .. 2
       /\ sc'.currentAvailableDrawableIndex = sc'.completedPresents % 3
       /\ IF sc.handler = "read" /\ sc'.handler = "idle"
          THEN sc'.currentAvailableDrawableIndex =
                  (sc.currentAvailableDrawableIndex + 1) % 3
          ELSE sc'.currentAvailableDrawableIndex = sc.currentAvailableDrawableIndex
      ]_vars

\* Two presents have completed while the application thread is inside
\* acquireTexture, which read the index before the second completion.
C11_Witness ==
    /\ sc.pc = "acquire"
    /\ sc.completedPresents = 2
    /\ sc.currentAvailableDrawableIndex = 2
    /\ sc.textureIndex = 1

(***************************************************************************)
(* Properties of the command queue.                                        *)
(***************************************************************************)

\* The entries of a log of native calls that are calls of the given name.
CallsNamed(log, name) == SelectSeq(log, LAMBDA c : c.call = name)

\* Position of the commit of the given buffer in a log (0 if it has none).
CommitRank(log, buffer) ==
    IF \E k \in DOMAIN log : log[k].call = "commit" /\ log[k].buffer = buffer
    THEN CHOOSE k \in DOMAIN log : log[k].call = "commit" /\ log[k].buffer = buffer
    ELSE 0

\* C12: the native calls of an executeCommandLists call commit, in this
\* order, the wait command buffer and then every command list of the array,
\* each exactly once and in array order; the waits encoded are one per wait
\* semaphore, all on the wait buffer and before its commit; the signals
\* encoded are one per signal semaphore and, with the fence's completed
\* handler (attached once, if a fence is given), are on the last command
\* list only, before its commit.
C12_SubmissionOrder ==
    q.log # <<>> =>
       LET last == q.commandLists[Len(q.commandLists)]
           commits == CallsNamed(q.log, "commit")
           waits == CallsNamed(q.log, "encodeWait")
           signals == CallsNamed(q.log, "encodeSignalEvent")
           handlers == CallsNamed(q.log, "addCompletedHandler")
       IN /\ [k \in DOMAIN commits |-> commits[k].buffer] = <<WaitBuffer>> \o q.commandLists
          /\ [k \in DOMAIN waits |-> waits[k].arg] = q.waitSemaphores
          /\ \A k \in DOMAIN q.log :
                q.log[k].call = "encodeWait"
                => q.log[k].buffer = WaitBuffer /\ k < CommitRank(q.log, WaitBuffer)
          /\ [k \in DOMAIN signals |-> signals[k].arg] = q.signalSemaphores
          /\ Len(handlers) = (IF q.signalFence = Null THEN 0 ELSE 1)
          /\ \A k \in DOMAIN handlers : handlers[k].arg = q.signalFence
          /\ \A k \in DOMAIN q.log :
                q.log[k].call \in {"encodeSignalEvent", "addCompletedHandler"}
                => q.log[k].buffer = last /\ k < CommitRank(q.log, last)
          /\ q.lastCall = "executeCommandLists"
             => \A i \in DOMAIN q.commandLists : q.listMtl[q.commandLists[i]] = Null

\* A submission of two command lists with two wait semaphores, a signal
\* semaphore and a fence has just been made.
C12_Witness ==
    /\ q.lastCall = "executeCommandLists"
    /\ Len(q.commandLists) = 2
    /\ Len(q.waitSemaphores) = 2
    /\ Len(q.signalSemaphores) >= 1
    /\ q.signalFence # Null

\* The device reaches a buffer of the queue that carries the completed
\* handler of fence f: every buffer up to it finds the events it waits on
\* signalled, by the state of the events or by a buffer ahead of it.
RECURSIVE Reaches(_, _, _)
Reaches(queue, eventValue, f) ==
    IF queue = <<>> THEN FALSE
    ELSE IF \E i \in DOMAIN queue[1].waits :
               eventValue[queue[1].waits[i][1]] < queue[1].waits[i][2] THEN FALSE
    ELSE IF queue[1].handler = f THEN TRUE
    ELSE Reaches(Tail(queue),
                 [x \in Semaphores |-> SignalledValue(queue[1].signals, x, eventValue[x])], f)

\* A release of fence f is on its way: its semaphore is signalled, or a
\* completed handler for it is pending, or the device reaches one.
WillSignal(f) ==
    \/ q.semaphore[f] > 0
    \/ \E k \in DOMAIN q.handlers : q.handlers[k] = f
    \/ Reaches(q.queue, q.eventValue, f)

\* The safety part of C13: a fence's semaphore counts the completed
\* handlers that ran minus the waits that returned; there is one handler per
\* submission that named the fence, and a wait returns only by taking one
\* signal of a handler that has run.
FenceCounts ==
    \A f \in Fences :
       /\ q.semaphore[f] = q.signalled[f] - q.returned[f]
       /\ q.returned[f] <= q.signalled[f]
       /\ q.signalled[f] <= q.submitted[f]
       /\ q.submitted[f] - q.signalled[f]
            = Cardinality({k \in DOMAIN q.queue : q.queue[k].handler = f})
              + Cardinality({k \in DOMAIN q.handlers : q.handlers[k] = f})

\* C13 as stated: a wait on a fence returns only after the completed handler
\* of the last command list of a submission that named the fence has run,
\* each submission releases exactly one wait, and a wait on a fence that has
\* been named by more submissions than waits have returned eventually
\* returns.
C13_WaitEventuallyReturns ==
    /\ []FenceCounts
    /\ \A f \in Fences :
          (q.pc = "wait" /\ q.waitFence = f /\ q.submitted[f] > q.returned[f])
          ~> (q.pc = "idle")

\* C13, with the condition the device needs: the wait eventually returns if
\* the device reaches the submission, that is, no command buffer up to its
\* last command list waits on a semaphore value that nothing ahead of it
\* signals.
C13_WaitReturnsIfReached ==
    /\ []FenceCounts
    /\ \A f \in Fences :
          (q.pc = "wait" /\ q.waitFence = f /\ q.submitted[f] > q.returned[f] /\ WillSignal(f))
          ~> (q.pc = "idle")

\* A wait has returned after a submission whose wait semaphore an earlier
\* submission had signalled.
C13_Witness ==
    /\ q.lastCall = "waitForCommandFence" /\ q.pc = "idle"
    /\ q.returned[q.waitFence] = 1
    /\ q.waitSemaphores # <<>>
    /\ q.queue = <<>>

(***************************************************************************)
(* Properties of the recorded state.                                       *)
(***************************************************************************)

\* The operation recorded in lastOp is a clear of rectangles.
IsPartialClear(op) ==
    op.name \in {"clearColor", "clearDepthStencil"} /\ op.args[Len(op.args)] > 0

\* The operation recorded in lastOp is a clearDepthStencil that clears
\* neither depth nor stencil.
ClearsNothing(op) ==
    IF op.name = "clearDepthStencil" THEN ~op.args[1] /\ ~op.args[2] ELSE FALSE

\* The recorded state a clear of rectangles is to leave alone.
RecordedState(s) ==
    <<s.activeRenderState, s.activeGraphicsPipelineLayout, s.renderDescriptorSets,
      s.viewportVector, s.scissorVector, s.pushConstants>>

\* The draw rebinds the recorded state of s: the pipeline if one is
\* recorded, the viewports if any are recorded, and, when viewports and
\* scissors are both recorded, the scissors and everything else that is
\* dirty.
DrawRebinds(s, t) ==
    /\ s.activeRenderState # Null
       => \E k \in DOMAIN t.calls :
             /\ t.calls[k].call = "setRenderPipelineState"
             /\ t.calls[k].arg[1] = MetalRenderState(s.activeRenderState).renderPipelineState
    /\ s.viewportVector # <<>>
       => \E k \in DOMAIN t.calls :
             t.calls[k].call = "setViewports" /\ t.calls[k].arg[1] = s.viewportVector
    /\ (s.viewportVector # <<>> /\ s.scissorVector # <<>>)
       => /\ \E k \in DOMAIN t.calls :
                t.calls[k].call = "setScissorRects" /\ t.calls[k].arg[1] = s.scissorVector
          /\ ~t.dirtyGraphicsState.pipelineState /\ ~t.dirtyGraphicsState.viewports
          /\ ~t.dirtyGraphicsState.scissors /\ ~t.dirtyGraphicsState.descriptorSets
          /\ ~t.dirtyGraphicsState.pushConstants /\ ~t.dirtyGraphicsState.depthBias
          /\ t.dirtyGraphicsState.vertexBufferSlots = {}

ObjectState(s) ==
    [s EXCEPT !.calls = <<>>, !.encOnlyDraws = FALSE, !.scenario = 0,
              !.renderClosedByCopy = FALSE, !.boundSets = {}, !.fullClears = NoFullClears,
              !.graphicsSince = NewCommandList.graphicsSince,
              !.computeSince = NewCommandList.computeSince]

\* C15: setGraphicsPipelineLayout (setComputePipelineLayout) with a layout
\* other than the active one leaves the 8 descriptor-set slots of its domain
\* empty and the push-constant data discarded, and marks the domain's
\* descriptor sets, from index 0, and push constants dirty; with the active
\* layout it changes nothing.
C15_LayoutChangeInvalidates ==
    [][/\ lastOp'.name = "setGraphicsPipelineLayout"
          => IF lastOp'.args[1] # cl.activeGraphicsPipelineLayout
             THEN /\ cl'.activeGraphicsPipelineLayout = lastOp'.args[1]
                  /\ DOMAIN cl'.renderDescriptorSets = 0 .. 7
                  /\ \A i \in 0 .. 7 : cl'.renderDescriptorSets[i] = Null
                  /\ cl'.pushConstants = <<>>
                  /\ cl'.dirtyGraphicsState.descriptorSets
                  /\ cl'.dirtyGraphicsState.descriptorSetDirtyIndex = 0
                  /\ cl'.dirtyGraphicsState.pushConstants
             ELSE ObjectState(cl') = ObjectState(cl)
       /\ lastOp'.name = "setComputePipelineLayout"
          => IF lastOp'.args[1] # cl.activeComputePipelineLayout
             THEN /\ cl'.activeComputePipelineLayout = lastOp'.args[1]
                  /\ DOMAIN cl'.computeDescriptorSets = 0 .. 7
                  /\ \A i \in 0 .. 7 : cl'.computeDescriptorSets[i] = Null
                  /\ cl'.pushConstants = <<>>
                  /\ cl'.dirtyComputeState.descriptorSets
                  /\ cl'.dirtyComputeState.descriptorSetDirtyIndex = 0
                  /\ cl'.dirtyComputeState.pushConstants
             ELSE ObjectState(cl') = ObjectState(cl)
      ]_vars

\* setGraphicsPipelineLayout has just been called with the active layout
\* while a descriptor set is bound: a change of layout would have emptied
\* the slot.
C15_Witness ==
    /\ lastOp.name = "setGraphicsPipelineLayout"
    /\ \E i \in SetSlots : cl.renderDescriptorSets[i] # Null

\* The range types whose resources a shader may write.
ReadWriteTypes ==
    {"READ_WRITE_FORMATTED_BUFFER", "READ_WRITE_STRUCTURED_BUFFER",
     "READ_WRITE_BYTE_ADDRESS_BUFFER", "READ_WRITE_TEXTURE"}

\* What the close of an encoder is to declare for a descriptor set: each
\* entry that has a resource, once, Read|Write for the read-write types and
\* Read for the others.
ExpectedUses(ds) ==
    LET live == SelectSeq(ResourceEntries(ds), LAMBDA e : e.resource # Null)
    IN [k \in DOMAIN live |->
           [resource |-> live[k].resource,
            usage |-> IF live[k].type \in ReadWriteTypes THEN {"Read", "Write"} ELSE {"Read"}]]

\* The k-th native call ends a render or compute encoder.
ClosesEncoder(calls, k) ==
    calls[k].call = "endEncoding" /\ calls[k].arg[1] \in {"Render", "Compute"}

\* The resources declared used just before the k-th native call, per
\* descriptor set.
DeclaredBefore(calls, k) ==
    IF k > 1 /\ calls[k - 1].call = "useResources" THEN calls[k - 1].arg[2] ELSE <<>>

\* The descriptor sets bound on the encoder that the k-th native call ends.
BoundBefore(bound, calls, k) == BoundAfter(bound, SubSeq(calls, 1, k - 1), 1)

\* C16: when a render or compute encoder closes, every descriptor set that a
\* flush bound on it while it was open has each of its entries with a
\* resource declared used exactly once, Read|Write for the read-write range
\* types and Read for the others, entries without a resource are skipped,
\* nothing is declared at any other moment, and the tracked set holds, at
\* every moment, exactly the sets bound on the encoder that is open: none
\* once it has closed.
C16_CloseDeclaresBoundSets ==
    [][~cl'.crashed
       => /\ cl'.currentEncoderDescriptorSets = cl'.boundSets
          /\ \A k \in DOMAIN cl'.calls :
                /\ ClosesEncoder(cl'.calls, k)
                   => LET bound == BoundBefore(cl.boundSets, cl'.calls, k)
                          declared == DeclaredBefore(cl'.calls, k)
                      IN /\ \A ds \in bound :
                               ExpectedUses(ds) # <<>>
                               => ds \in DOMAIN declared /\ declared[ds] = ExpectedUses(ds)
                         /\ \A ds \in DOMAIN declared : ds \in bound
                /\ cl'.calls[k].call = "useResources"
                   => k < Len(cl'.calls) /\ ClosesEncoder(cl'.calls, k + 1)
          /\ (\E k \in DOMAIN cl'.calls :
                  ClosesEncoder(cl'.calls, k) /\ \A j \in DOMAIN cl'.calls : j <= k)
             => cl'.currentEncoderDescriptorSets = {}
      ]_vars

\* A render encoder on which two descriptor sets were bound has just closed,
\* and the resources of both were declared.
C16_Witness ==
    /\ ~cl.crashed
    /\ \E k \in DOMAIN cl.calls :
          /\ cl.calls[k].call = "useResources"
          /\ ~cl.calls[k].arg[1]
          /\ DOMAIN cl.calls[k].arg[2] = DescriptorSets
    /\ cl.currentEncoderDescriptorSets = {}

\* ------------------------------------------------------------------------
\* Properties of the descriptor set and of its layout
\* ------------------------------------------------------------------------

\* C17: after any sequence of setBuffer, setTexture and setSampler calls
\* that the process survives, resourceEntries has exactly one entry per flat
\* descriptor index (as many as the layout's descriptorIndexBases), and an
\* index whose last set call passed null has a null resource.
C17_OneEntryPerIndex ==
    (dset.constructed /\ ~dset.crashed) =>
        /\ Len(dset.resourceEntries) = Len(dset.setLayout.descriptorIndexBases)
        /\ \A k \in DOMAIN dset.lastNull :
              dset.lastNull[k] => dset.resourceEntries[k].resource = Null

\* An index that held a resource and was then set to null, beside an index
\* that still holds its resource.
C17_Witness ==
    /\ dset.constructed
    /\ ~dset.crashed
    /\ dset.ops = 2
    /\ \E k \in DOMAIN dset.lastNull :
          /\ dset.lastNull[k]
          /\ dset.resourceEntries[k].resource = Null
          /\ dset.toReleaseOnDestruction # <<>>
    /\ Len(dset.resourceEntries) >= 2

RangeBindingsOf(desc) == {desc.descriptorRanges[i].binding : i \in DOMAIN desc.descriptorRanges}

HighestBinding(desc) == CHOOSE b \in RangeBindingsOf(desc) : \A c \in RangeBindingsOf(desc) : c <= b

RangeAtBinding(desc, b) ==
    desc.descriptorRanges[CHOOSE i \in DOMAIN desc.descriptorRanges : desc.descriptorRanges[i].binding = b]

\* C18: a layout built from non-boundless ranges of count 1 on distinct
\* bindings has exactly one argument entry per binding number from 0 up to
\* the highest binding, in ascending index order: the range's entry for a
\* number in use, a zero-length placeholder for each unused number; for the
\* bindings {0, 2, 5} there are 6 entries.
C18_OneEntryPerBindingNumber ==
    (/\ dset.constructed
     /\ ~dset.desc.lastRangeIsBoundless
     /\ \A i \in DOMAIN dset.desc.descriptorRanges : dset.desc.descriptorRanges[i].count = 1)
    => LET entries == dset.setLayout.argumentDescriptors
           used == RangeBindingsOf(dset.desc)
       IN /\ Len(entries) = HighestBinding(dset.desc) + 1
          /\ \A k \in DOMAIN entries :
                /\ entries[k].index = k - 1
                /\ entries[k].arrayLength = 0
                /\ entries[k].dataType = IF k - 1 \in used
                                         THEN mapDataType(RangeAtBinding(dset.desc, k - 1).type)
                                         ELSE "Pointer"
          /\ used = {0, 2, 5} => Len(entries) = 6

\* The layout of ranges given on bindings 5, 0 and 2, in that order.
C18_Witness ==
    /\ dset.constructed
    /\ ~dset.desc.lastRangeIsBoundless
    /\ Len(dset.desc.descriptorRanges) = 3
    /\ \A i \in 1 .. 3 : dset.desc.descriptorRanges[i].count = 1
    /\ dset.desc.descriptorRanges[1].binding = 5
    /\ dset.desc.descriptorRanges[2].binding = 0
    /\ dset.desc.descriptorRanges[3].binding = 2
    /\ Len(dset.setLayout.argumentDescriptors) = 6
    /\ dset.setLayout.argumentDescriptors[2].arrayLength = 0
    /\ dset.setLayout.argumentDescriptors[6].index = 5

\* The range the description marks as boundless: its last one.
BoundlessRange(desc) == desc.descriptorRanges[Len(desc.descriptorRanges)]

EntriesAtIndex(entries, index) == {k \in DOMAIN entries : entries[k].index = index}

\* C19: the boundless range of a layout, on binding B, has exactly one
\* argument entry, at index B, whose array length is the device maximum
\* whatever boundlessRangeSize is; one texture range on binding 0 with a
\* boundless sampler range on binding 1 gives exactly two entries, a texture
\* entry and a sampler entry, and no padding.
C19_BoundlessEntry ==
    (dset.constructed /\ dset.desc.lastRangeIsBoundless)
    => LET entries == dset.setLayout.argumentDescriptors
           range == BoundlessRange(dset.desc)
           at == EntriesAtIndex(entries, range.binding)
       IN /\ Cardinality(at) = 1
          /\ \A k \in at : /\ entries[k].arrayLength = maxTextureSize
                           /\ entries[k].dataType = mapDataType(range.type)
          /\ (dset.desc.descriptorRanges = <<[type |-> "TEXTURE", binding |-> 0, count |-> 1],
                                             [type |-> "SAMPLER", binding |-> 1, count |-> 1]>>)
             => /\ Len(entries) = 2
                /\ entries[1] = ArgumentDescriptor("Texture", 0, 0)
                /\ entries[2] = ArgumentDescriptor("Sampler", 1, maxTextureSize)

\* ------------------------------------------------------------------------
\* Properties of the swap chain when the layer has no drawable
\* ------------------------------------------------------------------------

\* A step of acquireTexture that ends the call: the application thread was
\* outside any call and is outside any call again.
AcquireReturnsInOneStep ==
    /\ sc.pc = "idle"
    /\ sc'.pc = "idle"
    /\ scOps' = scOps + 1
    /\ sc'.lastCall = "acquireTexture"

\* C20: an acquireTexture call for which the layer has no drawable returns
\* false in the step that asked for it, takes no drawable from the layer,
\* and leaves *textureIndex as the caller passed it and
\* currentAvailableDrawableIndex and every slot's drawable as they were.
C20_FailedAcquireChangesNothing ==
    [][AcquireReturnsInOneStep =>
         /\ sc'.result = "false"
         /\ sc'.textureIndex = sc'.passedIndex
         /\ sc'.currentAvailableDrawableIndex = sc.currentAvailableDrawableIndex
         /\ sc'.drawables = sc.drawables
         /\ sc'.drawableDesc = sc.drawableDesc
         /\ sc'.drawablesVended = sc.drawablesVended
         /\ sc'.nextDrawable = NullDrawable]_vars

\* A failed acquireTexture on a swap chain that holds a drawable, called
\* with an index other than the ring index.
C20_Witness ==
    /\ sc.lastCall = "acquireTexture"
    /\ sc.result = "false"
    /\ sc.pc = "idle"
    /\ sc.textureIndex = sc.passedIndex
    /\ sc.passedIndex # sc.currentAvailableDrawableIndex
    /\ \E i \in DrawableSlots : sc.drawables[i] # NullDrawable

\* ------------------------------------------------------------------------
\* Properties of MetalSwapChain::resize
\* ------------------------------------------------------------------------

\* A step that is a whole resize() call.
ResizeStep == scOps' = scOps + 1 /\ sc'.lastCall = "resize"

\* What resize() may change besides the members it always writes.
LayerAndDrawables(s) == <<s.layerDrawableSize, s.setDrawableSizeCalls, s.drawableDesc>>

\* C21: resize() returns false when the window width or height is 0 and true
\* otherwise; when the window size equals the drawable size of the layer it
\* makes no call on the layer and leaves the dimensions of the drawables
\* alone; a resize() that follows a resize() and finds the same window size
\* changes nothing at all.
C21_ResizeIdempotent ==
    [][ResizeStep =>
         /\ sc'.result = (IF sc'.width = 0 \/ sc'.height = 0 THEN "false" ELSE "true")
         /\ <<sc'.width, sc'.height>> = sc.layerDrawableSize
            => LayerAndDrawables(sc') = LayerAndDrawables(sc)
         /\ sc'.repeatedResize => [sc' EXCEPT !.repeatedResize = sc.repeatedResize] = sc]_vars

\* A second resize() on an unchanged window of a new, non-zero size, after
\* the first one has set the drawable size of the layer.
C21_Witness ==
    /\ sc.lastCall = "resize"
    /\ sc.repeatedResize
    /\ sc.result = "true"
    /\ sc.setDrawableSizeCalls = 1
    /\ sc.layerDrawableSize = <<8, 4>>
    /\ scOps = 2

\* ------------------------------------------------------------------------
\* Properties of the format conversion
\* ------------------------------------------------------------------------

\* C22: for every render format that mapPixelFormat has a case for and that
\* is not a TYPELESS format, mapRenderFormat(mapPixelFormat(format)) is the
\* format.
C22_FormatRoundTrip ==
    (conv.stage = "back" /\ conv.format \notin TypelessFormats)
    => conv.renderFormat = conv.format

\* ------------------------------------------------------------------------
\* Properties of setGraphicsPushConstants and setComputePushConstants
\* ------------------------------------------------------------------------

\* The bytes of range k of a push-constant table, none if it has no range k.
RangeBytes(pushConstants, k) ==
    IF k \in DOMAIN pushConstants THEN pushConstants[k].data ELSE <<>>

\* The call with arguments args = (rangeIndex, byte, offset, size) on a range
\* of the given size has put the byte at the positions it was to copy to and
\* has left the bytes of every other range as they were.
CopiedIntoRange(before, after, rangeSize, args) ==
    /\ \A k \in 1 .. (IF args[4] = 0 THEN rangeSize ELSE args[4]) :
          RangeBytes(after, args[1] + 1)[args[3] + k] = args[2]
    /\ \A k \in DOMAIN before :
          k # args[1] + 1 => RangeBytes(after, k) = RangeBytes(before, k)

\* C23: setGraphicsPushConstants and setComputePushConstants(rangeIndex,
\* data, offset, size) copy size bytes, the whole range for size 0, into the
\* buffer of the range at offset, leave the bytes of the other ranges
\* unchanged and mark the push constants of their domain dirty.
C23_PushConstantsCopied ==
    [][/\ lastOp'.name = "setGraphicsPushConstants"
          => /\ CopiedIntoRange(cl.pushConstants, cl'.pushConstants,
                    PushConstantRanges(cl.activeGraphicsPipelineLayout)[lastOp'.args[1] + 1].size,
                    lastOp'.args)
             /\ cl'.dirtyGraphicsState.pushConstants
       /\ lastOp'.name = "setComputePushConstants"
          => /\ CopiedIntoRange(cl.pushConstants, cl'.pushConstants,
                    PushConstantRanges(cl.activeComputePipelineLayout)[lastOp'.args[1] + 1].size,
                    lastOp'.args)
             /\ cl'.dirtyComputeState.pushConstants
      ]_vars

\* ------------------------------------------------------------------------
\* Properties of MetalDevice::getOrCreateClearRenderPipelineState
\* ------------------------------------------------------------------------

ApplicableDepthBias(s) ==
    IF MetalRenderState(s.activeRenderState).dynamicDepthBiasEnabled
    THEN <<s.dynamicDepthBias.depthBias, s.dynamicDepthBias.slopeScaledDepthBias,
           s.dynamicDepthBias.depthBiasClamp>>
    ELSE <<MetalRenderState(s.activeRenderState).depthBiasConstantFactor,
           MetalRenderState(s.activeRenderState).depthBiasSlopeFactor,
           MetalRenderState(s.activeRenderState).depthBiasClamp>>

\* The last operation changed the depth bias that applies: setDepthBias, or
\* a setPipeline that replaced the pipeline bound on the encoder by another.
ChangedDepthBias(s, op) ==
    \/ op.name = "setDepthBias"
    \/ /\ op.name = "setPipeline" /\ op.args[1] \in GraphicsPipelines
       /\ s.stateCache.lastPipelineState # Null
       /\ s.stateCache.lastPipelineState # MetalRenderState(op.args[1]).renderPipelineState

\* C25: after setDepthBias, or a setPipeline to a pipeline with other
\* depth-bias settings, while a render encoder is open, the next draw on
\* that encoder issues setDepthBias with the values that then apply, after
\* the pipeline bind.
C25_DrawIssuesDepthBias ==
    [][(/\ lastOp'.name \in DrawOps /\ ~cl'.crashed
        /\ cl.activeRenderEncoder # Null /\ cl'.renderOpens = cl.renderOpens
        /\ cl.activeRenderState # Null
        /\ ChangedDepthBias(cl, lastOp)
        /\ cl.dynamicDepthBias # IndeterminateBias)
       => \E k \in DOMAIN cl'.calls :
             /\ cl'.calls[k].call = "setDepthBias"
             /\ cl'.calls[k].arg = ApplicableDepthBias(cl')
             /\ \A j \in DOMAIN cl'.calls :
                   cl'.calls[j].call = "setRenderPipelineState" => j < k
      ]_vars

\* The flat index at which the range that owns a descriptor index begins.
RangeIndexBase(s, descriptorIndex) == s.setLayout.descriptorIndexBases[descriptorIndex + 1]

\* C26: a setBuffer, setTexture or setSampler call that passes a resource for
\* the flat descriptor index d encodes it with the native data type of the
\* range that owns d, at argument index binding + (d - indexBase) of that
\* range, whatever the order and the counts of the ranges.
C26_EncodedAsOwningRange ==
    [][(/\ dset.constructed /\ dset'.ops = dset.ops + 1 /\ ~dset'.crashed
        /\ ~dset'.lastNull[dset'.lastIndex + 1])
       => /\ dset'.encoded[1] = mapDataType(RangeOfIndex(dset, dset'.lastIndex).type)
          /\ dset'.encoded[2] = RangeOfIndex(dset, dset'.lastIndex).binding
                                  + (dset'.lastIndex - RangeIndexBase(dset, dset'.lastIndex))
      ]_vars

\* The array length of a range that is not boundless: its count, 0 for one.
FixedArrayLength(range) == IF range.count > 1 THEN range.count ELSE 0

\* C27: in a layout with a boundless range, the entry of the last range of
\* the description is the one of unbounded array length, and the entry of
\* every other range has the array length of the range's own count, whatever
\* the binding numbers of the ranges.
C27_LastRangeIsTheBoundlessOne ==
    (dset.constructed /\ dset.desc.lastRangeIsBoundless)
    => \A i \in DOMAIN dset.desc.descriptorRanges :
          \A k \in EntriesAtIndex(dset.setLayout.argumentDescriptors,
                                  dset.desc.descriptorRanges[i].binding) :
             dset.setLayout.argumentDescriptors[k].arrayLength =
                IF i = Len(dset.desc.descriptorRanges) THEN maxTextureSize
                ELSE FixedArrayLength(dset.desc.descriptorRanges[i])

\* ------------------------------------------------------------------------
\* Properties of a newly opened encoder
\* ------------------------------------------------------------------------

\* The native call is among the calls of an operation.
Issued(log, name, a) == \E k \in DOMAIN log : log[k] = [call |-> name, arg |-> a]

\* The calls of a draw bind the graphics state recorded in s: the pipeline
\* and the viewports, and, where the rest is bound, the scissors, every
\* vertex-buffer slot, the descriptor sets of the layout from index 0 and
\* the push constants of the vertex and pixel stages.
RebindsGraphicsState(s, log, rest) ==
    /\ s.activeRenderState # Null
       => Issued(log, "setRenderPipelineState",
                 <<MetalRenderState(s.activeRenderState).renderPipelineState>>)
    /\ s.viewportVector # <<>> => Issued(log, "setViewports", <<s.viewportVector>>)
    /\ rest =>
          /\ s.scissorVector # <<>> => Issued(log, "setScissorRects", <<s.scissorVector>>)
          /\ \A i \in VertexSlots :
                Issued(log, "setVertexBuffer",
                       <<s.vertexBuffers[i], s.vertexBufferOffsets[i],
                         VERTEX_BUFFERS_BINDING_INDEX + i>>)
          /\ s.activeGraphicsPipelineLayout # Null =>
                \A i \in 0 .. (SetLayoutCount(s.activeGraphicsPipelineLayout) - 1) :
                   s.renderDescriptorSets[i] # Null =>
                      /\ Issued(log, "setFragmentBuffer",
                                <<s.renderDescriptorSets[i], DESCRIPTOR_SETS_BINDING_INDEX + i>>)
                      /\ Issued(log, "setVertexBuffer",
                                <<s.renderDescriptorSets[i], DESCRIPTOR_SETS_BINDING_INDEX + i>>)
          /\ \A k \in DOMAIN s.pushConstants :
                /\ "VERTEX" \in s.pushConstants[k].stageFlags =>
                      Issued(log, "setVertexBytes",
                             <<s.pushConstants[k].data, s.pushConstants[k].size,
                               PUSH_CONSTANTS_BINDING_INDEX + s.pushConstants[k].binding>>)
                /\ "PIXEL" \in s.pushConstants[k].stageFlags =>
                      Issued(log, "setFragmentBytes",
                             <<s.pushConstants[k].data, s.pushConstants[k].size,
                               PUSH_CONSTANTS_BINDING_INDEX + s.pushConstants[k].binding>>)

\* The calls of a dispatch bind the compute state recorded in s: the
\* pipeline, the descriptor sets of the layout from index 0 and the push
\* constants of the compute stage.
RebindsComputeState(s, log) ==
    /\ s.activeComputeState # Null
       => Issued(log, "setComputePipelineState", <<s.activeComputeState>>)
    /\ s.activeComputePipelineLayout # Null =>
          \A i \in 0 .. (SetLayoutCount(s.activeComputePipelineLayout) - 1) :
             s.computeDescriptorSets[i] # Null =>
                Issued(log, "setBuffer",
                       <<s.computeDescriptorSets[i], DESCRIPTOR_SETS_BINDING_INDEX + i>>)
    /\ \A k \in DOMAIN s.pushConstants :
          "COMPUTE" \in s.pushConstants[k].stageFlags =>
             Issued(log, "setBytes",
                    <<s.pushConstants[k].data, s.pushConstants[k].size,
                      PUSH_CONSTANTS_BINDING_INDEX + s.pushConstants[k].binding>>)

\* A draw that opens a render encoder; a dispatch that opens a compute
\* encoder.
DrawOpensEncoder ==
    lastOp'.name \in DrawOps /\ ~cl'.crashed /\ cl'.renderOpens = cl.renderOpens + 1

DispatchOpensEncoder ==
    /\ lastOp'.name = "dispatch" /\ ~cl'.crashed
    /\ cl.activeComputeEncoder = Null /\ cl'.activeComputeEncoder # Null

SetIndicesBound(log, name) ==
    {log[k].arg[2] - DESCRIPTOR_SETS_BINDING_INDEX :
        k \in {j \in DOMAIN log : log[j].call = name /\ log[j].arg[1] \in DescriptorSets}}

\* The flush binds every non-null set from index m up to the set count of
\* the layout at its buffer index, and, where that is required, no set below
\* index m.
BindsSetsFrom(m, layout, descriptorSets, log, name, noneBelow) ==
    /\ \A i \in m .. (SetLayoutCount(layout) - 1) :
          descriptorSets[i] # Null
          => Issued(log, name, <<descriptorSets[i], DESCRIPTOR_SETS_BINDING_INDEX + i>>)
    /\ noneBelow => \A i \in SetIndicesBound(log, name) : i >= m

\* A descriptor-set call with the pointer already stored changes no flag.
SamePointerMarksNothing ==
    /\ (lastOp'.name = "setGraphicsDescriptorSet"
          /\ cl.renderDescriptorSets[lastOp'.args[2]] = lastOp'.args[1])
       => cl'.dirtyGraphicsState = cl.dirtyGraphicsState
    /\ (lastOp'.name = "setComputeDescriptorSet"
          /\ cl.computeDescriptorSets[lastOp'.args[2]] = lastOp'.args[1])
       => cl'.dirtyComputeState = cl.dirtyComputeState

\* A draw or dispatch that follows a change of a descriptor-set pointer of
\* its domain.
DrawAfterSetChange ==
    /\ lastOp'.name \in DrawOps /\ ~cl'.crashed
    /\ cl.graphicsSince.lowest < MAX_DESCRIPTOR_SET_BINDINGS

DispatchAfterSetChange ==
    /\ lastOp'.name = "dispatch" /\ ~cl'.crashed
    /\ cl.computeSince.lowest < MAX_DESCRIPTOR_SET_BINDINGS

ExecutedBuffers == q.committed - Len(q.queue)

\* On a semaphore whose signals and waits have alternated, signal first,
\* every wait was encoded with the value of the signal just before it.
WaitsTargetPrecedingSignal ==
    \A x \in Semaphores : q.sync[x].alternates => q.sync[x].matched

\* No step lowers the mtlEventValue of a semaphore.
MtlEventValueNeverDecreases ==
    \A x \in Semaphores : q'.mtlEventValue[x] >= q.mtlEventValue[x]

\* On such a semaphore the event does not reach the value of a signal whose
\* command buffer the device has not executed yet, so the buffer that waits
\* for that value does not start before it.
WaitingBufferRunsAfterSignal ==
    \A x \in Semaphores : q.sync[x].alternates =>
       \A i \in DOMAIN q.queue : \A j \in DOMAIN q.queue[i].signals :
          q.queue[i].signals[j][1] = x => q.eventValue[x] < q.queue[i].signals[j][2]

\* The last wait encoded on semaphore x has value v and the signals and
\* waits of x have alternated.
AlternatingWait(x, v) ==
    q.sync[x].alternates /\ q.sync[x].last = "wait" /\ q.sync[x].wait = v

\* C30 as stated: on a semaphore whose signals and waits alternate, signal
\* first, every wait targets the value of the signal just before it,
\* mtlEventValue never decreases, the waiting buffer runs only after the
\* signalling one, and every such wait is eventually satisfied, whatever
\* else the queue holds.
C30_AlternatingWaitIsSatisfied ==
    /\ []WaitsTargetPrecedingSignal
    /\ [][MtlEventValueNeverDecreases]_vars
    /\ []WaitingBufferRunsAfterSignal
    /\ \A x \in Semaphores : \A v \in 1 .. MaxFrameOps + 1 :
          AlternatingWait(x, v) ~> (q.eventValue[x] >= v)

\* C30 for a queue on which every semaphore is used that way: every wait
\* targets the value of the signal just before it, mtlEventValue never
\* decreases, the waiting buffer runs only after the signalling one, and
\* the device always comes to execute every buffer that was committed
\* while the signals and waits of all semaphores alternated, its waits
\* satisfied.
C30_AlternatingWaitsAreSatisfied ==
    /\ []WaitsTargetPrecedingSignal
    /\ [][MtlEventValueNeverDecreases]_vars
    /\ []WaitingBufferRunsAfterSignal
    /\ []<>(ExecutedBuffers >= q.orderly)

\* A frame on one semaphore has run: acquireTexture signalled 1, the
\* submission waited for 1 and signalled 2, present waited for 2, and the
\* device has executed all of it.
C30_Witness ==
    /\ q.lastCall = "present"
    /\ q.sync["semA"].alternates /\ q.sync["semA"].last = "wait"
    /\ q.sync["semA"].wait = 2 /\ q.sync["semA"].signal = 2
    /\ q.mtlEventValue["semA"] = 3
    /\ q.eventValue["semA"] = 2
    /\ q.orderly = q.committed /\ q.committed >= 4
    /\ q.queue = <<>>


\* ------------------------------------------------------------------------
\* C31. The signal of acquireTexture.
\* ------------------------------------------------------------------------
\* The last call was an acquireTexture that encoded a signal of a semaphore.
AcquireSignalled ==
    /\ q.lastCall = "acquireTexture" /\ sc.lastCall = "acquireTexture"
    /\ \E i \in DOMAIN q.log : q.log[i].call = "encodeSignalEvent"

\* C31: acquireTexture signals signalSemaphore only for a drawable it has
\* obtained: when the signal has been issued the layer has vended the
\* drawable, and the call does not return false.
C31_SignalOnlyForDrawable ==
    AcquireSignalled => (sc.pc = "acquire" \/ sc.result = "true")


\* ------------------------------------------------------------------------
\* C32. The clear pipeline key.
\* ------------------------------------------------------------------------
\* What the claim lets two descriptors differ in: the two clear flags, the
\* sample count, the depth format and the pixel format of a color attachment.
SameAttachmentConfiguration(a, b) ==
    /\ a.depthWriteEnabled = b.depthWriteEnabled
    /\ a.stencilWriteEnabled = b.stencilWriteEnabled
    /\ a.sampleCount = b.sampleCount
    /\ a.depthFormat = b.depthFormat
    /\ a.colorAttachments = b.colorAttachments

\* C32: the clear pipeline key is injective: two descriptors with the same
\* key have the same clear flags, sample count, depth format and color
\* attachment formats.
C32_KeyInjective ==
    (Len(dev.keys) = 2 /\ dev.keys[1] = dev.keys[2])
        => SameAttachmentConfiguration(dev.descs[1], dev.descs[2])


\* ------------------------------------------------------------------------
\* C33. A full clear and the commands of other encoders recorded after it.
\* ------------------------------------------------------------------------
\* The operations that encode a command on a blit or compute encoder.
OtherEncoderOps == CopyOps \cup {"dispatch", "resolveTextureRegion"}

\* C33: a copy, dispatch or resolveTextureRegion recorded while a full clear
\* is pending finds the clear applied: the render pass that carries the
\* clear is opened before the command is encoded, and no clear is pending
\* when the operation returns.
C33_ClearBeforeLaterCommand ==
    [][(cl.pendingClears.active /\ lastOp'.name \in OtherEncoderOps /\ ~cl'.crashed)
       => /\ ~cl'.pendingClears.active
          /\ FirstCall(cl'.calls, "renderCommandEncoder") > 0
      ]_vars

\* ------------------------------------------------------------------------
\* Full clears and the render pass that applies them
\* ------------------------------------------------------------------------
\* The render pass opened by the native call at position k.
PassAt(calls, k) == calls[k].arg[1]

\* The pass opened at position k was ended within the same operation.
EndedAfter(calls, k) == \E j \in DOMAIN calls : j > k /\ calls[j].call = "endEncoding"

\* The attachments of pass that exist on framebuffer fb carry load action
\* Clear with the owed value where a full clear is owed, and Load elsewhere.
AppliesClears(pass, fb, owed) ==
    \A i \in ClearSlots :
        \E att \in {PassAttachment(pass, fb, i)} :
            att # NoAttachment =>
                IF owed[i] # "None"
                THEN att.loadAction = "Clear" /\ att.clearValue = owed[i]
                ELSE att.loadAction = "Load"

\* C34: every recorded full clear is applied by exactly one render pass. The
\* first render pass opened on the framebuffer after full clears uses load
\* action Clear with the last recorded value on each cleared attachment and
\* Load on the others, and takes the clears with it, so that every later pass
\* uses Load; setFramebuffer, resolveTexture and end() recorded while full
\* clears are owed open and end a pass that applies them.
C34_FullClearAppliedOnce ==
    [][~cl'.crashed =>
          \E passes \in {FramebufferPasses(cl'.calls, lastOp'.name, lastOp'.args)} :
              /\ \A k \in passes :
                    AppliesClears(PassAt(cl'.calls, k), cl.targetFramebuffer,
                                  IF \A j \in passes : k <= j THEN cl.fullClears
                                  ELSE NoFullClears)
              /\ (/\ lastOp'.name \in {"setFramebuffer", "resolveTexture", "end"}
                  /\ cl.fullClears # NoFullClears)
                    => /\ passes # {}
                       /\ \A k \in passes : EndedAfter(cl'.calls, k)
                       /\ cl'.fullClears = NoFullClears
                       /\ ~cl'.pendingClears.active
                       /\ cl'.activeRenderEncoder = Null]_vars

\* end() applies a full clear of colour attachment 0 that no draw followed,
\* after an earlier render pass of the same recording.
C34_Witness ==
    /\ lastOp.name = "end" /\ ~cl.crashed
    /\ cl.renderOpens >= 2
    /\ \E k \in FramebufferPasses(cl.calls, "end", <<>>) :
          /\ PassAt(cl.calls, k).color[0].loadAction = "Clear"
          /\ PassAt(cl.calls, k).color[0].clearValue \in Colors
          /\ EndedAfter(cl.calls, k)

\* ------------------------------------------------------------------------
\* Pipeline layout changes and the other domain
\* ------------------------------------------------------------------------
\* The descriptor sets, push-constant data and dirty bits of the graphics
\* (compute) domain are the same in after as in before.
GraphicsUntouched(before, after) ==
    /\ after.renderDescriptorSets = before.renderDescriptorSets
    /\ after.pushConstants = before.pushConstants
    /\ after.dirtyGraphicsState = before.dirtyGraphicsState

ComputeUntouched(before, after) ==
    /\ after.computeDescriptorSets = before.computeDescriptorSets
    /\ after.pushConstants = before.pushConstants
    /\ after.dirtyComputeState = before.dirtyComputeState

\* C35: setComputePipelineLayout recorded right after
\* setGraphicsPushConstants leaves the graphics descriptor sets, the graphics
\* push-constant data just recorded and the graphics dirty bits unchanged,
\* and setGraphicsPipelineLayout recorded right after setComputePushConstants
\* leaves the compute ones unchanged.
C35_OtherDomainUntouched ==
    [][/\ (lastOp.name = "setGraphicsPushConstants"
           /\ lastOp'.name = "setComputePipelineLayout") => GraphicsUntouched(cl, cl')
       /\ (lastOp.name = "setComputePushConstants"
           /\ lastOp'.name = "setGraphicsPipelineLayout") => ComputeUntouched(cl, cl')]_vars

\* The range a push-constant call named name addresses on command list s.
AddressedRange(s, name, args) ==
    PushConstantRanges(IF name = "setGraphicsPushConstants"
                       THEN s.activeGraphicsPipelineLayout
                       ELSE s.activeComputePipelineLayout)[args[1] + 1]

\* C36: setGraphicsPushConstants and setComputePushConstants never write
\* outside the range's buffer: for every offset and size they accept, the
\* bytes written are offset .. offset + n - 1 with n = size, or the range
\* size for size 0, and offset + n is at most the range size.
C36_CopyInsideBuffer ==
    [][lastOp'.name \in {"setGraphicsPushConstants", "setComputePushConstants"}
          => \E range \in {AddressedRange(cl, lastOp'.name, lastOp'.args)} :
             \E a \in {[offset |-> lastOp'.args[3], size |-> lastOp'.args[4]]} :
                /\ WrittenBytes(range, a) \subseteq 1 .. range.size
                /\ a.offset + CopiedBytes(range, a) <= range.size]_vars

\* ------------------------------------------------------------------------
\* Retains and releases of a descriptor set
\* ------------------------------------------------------------------------
\* The set holds r in an entry of its resource table.
LiveEntryReferences(s, r) == \E k \in DOMAIN s.resourceEntries : s.resourceEntries[k].resource = r

\* C37: for any sequence of setBuffer, setTexture and setSampler calls
\* followed by the destruction of the descriptor set, each native resource
\* has received as many releases from the set as retains, and as long as the
\* set lives it releases no resource that an entry of its resource table
\* references.
C37_ReleasesMatchRetains ==
    dset.constructed =>
        \A r \in NativeResources :
            /\ dset.destroyed => dset.releases[r] = dset.retains[r]
            /\ (~dset.destroyed /\ LiveEntryReferences(dset, r)) => dset.releases[r] = 0

\* ------------------------------------------------------------------------
\* The cycle of a command list
\* ------------------------------------------------------------------------
\* The list holds no native command buffer.
HoldsNoBuffer(s, l) == s.listMtl[l] = Null

\* The list was never begun, or was submitted since its last begin().
ReadyForBegin(s, l) == s.cycle[l] \in {"new", "submitted"}

\* C38: a command list holds no native command buffer exactly when it was
\* never begun or was submitted by executeCommandLists since its last
\* begin(); begin() is accepted exactly then, and its assertion fails on a
\* list begun and not submitted since, which keeps its buffer;
\* executeCommandLists leaves every command list it was given without a
\* command buffer.
C38_BeginCycle ==
    [][/\ \A l \in CommandLists : HoldsNoBuffer(q', l) <=> ReadyForBegin(q', l)
       /\ (q'.lastCall = "begin" /\ q'.ops # q.ops)
             => \E l \in {lastOp'.args[1]} :
                   IF ReadyForBegin(q, l)
                   THEN q'.pc # AssertionFailed /\ ~HoldsNoBuffer(q', l)
                   ELSE q'.pc = AssertionFailed /\ q'.listMtl = q.listMtl
       /\ (q'.lastCall = "executeCommandLists" /\ q'.ops # q.ops)
             => \A i \in DOMAIN q'.commandLists : HoldsNoBuffer(q', q'.commandLists[i])]_vars

\* The assertion of begin() has failed on a list that was begun, submitted
\* and begun again.
C38_Witness ==
    /\ q.pc = AssertionFailed /\ q.lastCall = "begin"
    /\ q.cycle[lastOp.args[1]] = "begun"
    /\ \E i \in DOMAIN q.commandLists : q.commandLists[i] = lastOp.args[1]
    /\ q.committed >= 2

\* ------------------------------------------------------------------------
\* Placeholders and the spans of the real argument entries
\* ------------------------------------------------------------------------
\* An argument entry that stands for no range of the description.
IsPlaceholder(desc, entry) == entry.index \notin RangeBindingsOf(desc)

\* The entry covers the argument index: the entry of a range of count n
\* covers n indices from its own on.
CoversIndex(entry, index) ==
    /\ entry.index <= index
    /\ index < entry.index + (IF entry.arrayLength > 1 THEN entry.arrayLength ELSE 1)

\* C39: in the argument entries of a layout no zero-length placeholder is
\* emitted at an index that lies inside the span binding .. binding + count - 1
\* of the entry of a range, for ranges of any count.
C39_NoPlaceholderInsideSpan ==
    dset.constructed =>
        \E entries \in {dset.setLayout.argumentDescriptors} :
            \A i, j \in DOMAIN entries :
                (IsPlaceholder(dset.desc, entries[i]) /\ ~IsPlaceholder(dset.desc, entries[j]))
                    => ~CoversIndex(entries[j], entries[i].index)

\* ------------------------------------------------------------------------
\* Properties of clampScissorRectIfNecessary
\* ------------------------------------------------------------------------

\* C40: for a framebuffer with a colour attachment the rectangle returned by
\* clampScissorRectIfNecessary lies inside the render target, whatever the
\* input rectangle: x + width is at most the width and y + height at most
\* the height of the colour attachments.
C40_ScissorInsideTarget ==
    (conv.stage = "clamped" /\ ColorAttachmentCount(conv.targetFramebuffer) > 0)
        => /\ conv.clampedRect.x + conv.clampedRect.width <= FramebufferWidth(conv.targetFramebuffer)
           /\ conv.clampedRect.y + conv.clampedRect.height <= FramebufferHeight(conv.targetFramebuffer)

====
